---------------------------- MODULE Spec2Model ----------------------------
(***************************************************************************)
(* A model of the tdesktop local-storage reader: the TDF$ file envelope,   *)
(* the encrypted block, the typed value stream, the account-map reader,    *)
(* the settings reader, the file keys and the boot of a profile.           *)
(*                                                                         *)
(* Representation of machine integers.  TLC's integers are 32-bit signed,  *)
(* so a u32/i32 is held as two 16-bit limbs <<hi, lo>> and a u64/i64 as    *)
(* four 16-bit limbs, most significant limb first.  A byte is 0..255.      *)
(***************************************************************************)
EXTENDS Integers, Sequences, FiniteSets, TLC

VARIABLES
  sBuf,      \* value stream: the cursor's buffer (Cursor<Vec<u8>>)
  sPos,      \* value stream: the cursor's position
  sLive,     \* value stream: FALSE once an operation returned Err
  sLast,     \* value stream: what the last operation was and returned
  fFile,     \* envelope: the file `<name>s` on disk, [exists, bytes]
  fOrig,     \* envelope: the body and version the file was written from
  fDamage,   \* envelope: what was done to the file after it was written
  fRes,      \* envelope: what FileReadDescriptor::open returned
  dEnc,      \* encrypted block: the `encrypted` buffer handed to decrypt_local
  dKey,      \* encrypted block: the auth key handed to decrypt_local
  dOrig,     \* encrypted block: the plaintext and key the buffer was made from
  dDamage,   \* encrypted block: what was done to the buffer or the key since
  dRes,      \* encrypted block: what decrypt_local returned
  mBuf,      \* account map: the decrypted map stream's buffer
  mPos,      \* account map: the decrypted map stream's position
  mPc,       \* account map: where read_map is ("reading", "done", "failed")
  mErr,      \* account map: the error read_map returned, "" if none
  mAccount,  \* account map: the StorageAccount's local_key and keys.settings
  mRecs,     \* account map: the records the map stream was written from
  mLast,     \* account map: the last step and the state before it
  rsBuf,     \* settings: the decrypted settings stream's buffer
  rsPos,     \* settings: the decrypted settings stream's position
  rsPc,      \* settings: "reading", "done", "failed" or "panicked"
  rsErr,     \* settings: the error read_setting returned, "" if none
  rsRecs,    \* settings: the records the settings stream was written from
  rsLast,    \* settings: the last step and the position before it
  kKey,      \* file key: the FileKey
  kPart,     \* file key: what to_file_part returned for it, <<>> before
  bScn,      \* boot: the environment and the profile on disk
  bPc,       \* boot: the step the process is at, "done" or "failed"
  bLog,      \* boot: the steps that ran, in order
  bRes,      \* boot: what main returned or how the process ended
  bWd,       \* boot: the OnceCell WORKING_DIR, <<>> while empty
  bStream,   \* boot: the decrypted stream of the running loop
  bKey,      \* boot: start_modern's local_key
  bLeft,     \* boot: the passes left of `for _ in 0..count`
  bTried,    \* boot: start_modern's `tried`
  bAccounts, \* boot: start_modern's `accounts`
  bCur       \* boot: the account of the running pass, <<>> if none

strVars == <<sBuf, sPos, sLive, sLast>>

envVars == <<fFile, fOrig, fDamage, fRes>>

decVars == <<dEnc, dKey, dOrig, dDamage, dRes>>

mapVars == <<mBuf, mPos, mPc, mErr, mAccount, mRecs, mLast>>

setVars == <<rsBuf, rsPos, rsPc, rsErr, rsRecs, rsLast>>

keyVars == <<kKey, kPart>>

bootVars == <<bScn, bPc, bLog, bRes, bWd, bStream, bKey, bLeft, bTried,
              bAccounts, bCur>>

vars == <<strVars, envVars, decVars, mapVars, setVars, keyVars, bootVars>>

notStr == <<envVars, decVars, mapVars, setVars, keyVars, bootVars>>

notEnv == <<strVars, decVars, mapVars, setVars, keyVars, bootVars>>

notDec == <<strVars, envVars, mapVars, setVars, keyVars, bootVars>>

notMap == <<strVars, envVars, decVars, setVars, keyVars, bootVars>>

notSet == <<strVars, envVars, decVars, mapVars, keyVars, bootVars>>

notKey == <<strVars, envVars, decVars, mapVars, setVars, bootVars>>

notBoot == <<strVars, envVars, decVars, mapVars, setVars, keyVars>>

(***************************************************************************)
(* The values of a layer's variables while that layer is not in use.       *)
(***************************************************************************)
NoOp == [op |-> "none"]

StreamIdle ==
  /\ sBuf = <<>>
  /\ sPos = 0
  /\ sLive = FALSE
  /\ sLast = NoOp

NoRes == [kind |-> "none"]

EnvelopeIdle ==
  /\ fFile = [exists |-> FALSE, bytes |-> <<>>]
  /\ fOrig = [body |-> <<>>, version |-> <<0, 0>>]
  /\ fDamage = [kind |-> "none"]
  /\ fRes = NoRes

DecryptIdle ==
  /\ dEnc = <<>>
  /\ dKey = 0
  /\ dOrig = [plain |-> <<>>, key |-> 0, declared |-> <<0, 0>>]
  /\ dDamage = [kind |-> "none"]
  /\ dRes = NoRes

\* FileKey::default()
FileKeyDefault == <<0, 0, 0, 0>>

MapIdle ==
  /\ mBuf = <<>>
  /\ mPos = 0
  /\ mPc = "idle"
  /\ mErr = ""
  /\ mAccount = [local_key |-> 0, settings |-> FileKeyDefault]
  /\ mRecs = <<>>
  /\ mLast = NoOp

SettingsIdle ==
  /\ rsBuf = <<>>
  /\ rsPos = 0
  /\ rsPc = "idle"
  /\ rsErr = ""
  /\ rsRecs = <<>>
  /\ rsLast = NoOp

KeyIdle ==
  /\ kKey = FileKeyDefault
  /\ kPart = <<>>

\* Every layer but the named one is not in use.
NoStream == [buf |-> <<>>, pos |-> 0]

NoOutcome == [kind |-> "none", msg |-> ""]

BootIdle ==
  /\ bScn = <<>>
  /\ bPc = "idle"
  /\ bLog = <<>>
  /\ bRes = NoOutcome
  /\ bWd = <<>>
  /\ bStream = NoStream
  /\ bKey = 0
  /\ bLeft = 0
  /\ bTried = {}
  /\ bAccounts = {}
  /\ bCur = <<>>

IdleBut(layer) ==
  /\ layer # "stream" => StreamIdle
  /\ layer # "envelope" => EnvelopeIdle
  /\ layer # "decrypt" => DecryptIdle
  /\ layer # "map" => MapIdle
  /\ layer # "settings" => SettingsIdle
  /\ layer # "key" => KeyIdle
  /\ layer # "boot" => BootIdle

(***************************************************************************)
(* Bounds of the model.                                                    *)
(***************************************************************************)
MaxChunks == 3

MaxBodyLen == 3

MaxBlocks == 2

MaxMapPrefix == 2

MaxSettingsPrefix == 2

MaxLoopRecs == 2

MaxInfoCount == 4

MaxInfoIndex == 3

MaxCalls == 3

(***************************************************************************)
(* Bytes and big-endian words.                                             *)
(***************************************************************************)
\* `let b = v;` before F: v is computed once and F works on its value.
Bind(v, F(_)) == CHOOSE y \in {F(b) : b \in {v}} : TRUE

Min(a, b) == IF a < b THEN a ELSE b

\* byteorder's BE decoding, as 16-bit limbs, most significant first.
Limb(buf, pos) == buf[pos + 1] * 256 + buf[pos + 2]

U32Zero == <<0, 0>>

U32Max == <<65535, 65535>>

\* A u32 that is below 2^31 as a number; larger ones are "huge".
U32Small(w) == w[1] < 32768

U32Nat(w) == w[1] * 65536 + w[2]

\* min(w, cap) for a u32 w and a small natural cap.
U32Capped(w, cap) == IF w[1] > 0 THEN cap ELSE Min(w[2], cap)

(***************************************************************************)
(* Readable: the closed set of stream types.                               *)
(***************************************************************************)
TI32 == [k |-> "i32"]

TI64 == [k |-> "i64"]

TU16 == [k |-> "u16"]

TU32 == [k |-> "u32"]

TU64 == [k |-> "u64"]

TBytes == [k |-> "Bytes"]

TTuple(fs) == [k |-> "tuple", f |-> fs]

TVec(item) == [k |-> "vec", item |-> item]

Fail == [ok |-> FALSE]

Ok(pos, val) == [ok |-> TRUE, pos |-> pos, val |-> val]

\* read_u16/read_u32/read_i32/read_u64/read_i64::<BE>: read_exact of the
\* width, then the big-endian value.
ReadInt(nbytes, buf, pos) ==
  IF pos + nbytes > Len(buf) THEN Fail
  ELSE Ok(pos + nbytes,
          IF nbytes = 2 THEN Limb(buf, pos)
          ELSE [i \in 1..(nbytes \div 2) |-> Limb(buf, pos + 2 * (i - 1))])

\* Bytes::read_from without the `len == u32::MAX` shortcut.
BytesReadFrom_NoMaxShortcut(buf, pos) ==
  LET l == ReadInt(4, buf, pos) IN
  IF ~l.ok THEN Fail
  ELSE IF l.val = U32Zero THEN Ok(l.pos, <<>>)
  ELSE IF ~U32Small(l.val) THEN Fail
  ELSE IF U32Nat(l.val) > Len(buf) - l.pos THEN Fail
  ELSE Ok(l.pos + U32Nat(l.val),
          SubSeq(buf, l.pos + 1, l.pos + U32Nat(l.val)))

\* Bytes::read_from
BytesReadFrom(buf, pos) ==
  LET l == ReadInt(4, buf, pos) IN
  IF ~l.ok THEN Fail
  ELSE IF l.val = U32Zero \/ l.val = U32Max THEN Ok(l.pos, <<>>)
  ELSE IF ~U32Small(l.val) THEN Fail
  ELSE IF U32Nat(l.val) > Len(buf) - l.pos THEN Fail
  ELSE Ok(l.pos + U32Nat(l.val),
          SubSeq(buf, l.pos + 1, l.pos + U32Nat(l.val)))

RECURSIVE ReadFrom(_, _, _)
RECURSIVE ReadFields(_, _, _, _)
RECURSIVE ReadItems(_, _, _, _, _)

\* (A, B), (A, B, C), (A, B, C, D): the fields in declared order.
ReadFields(fs, buf, pos, acc) ==
  IF fs = <<>> THEN Ok(pos, acc)
  ELSE LET r == ReadFrom(Head(fs), buf, pos) IN
       IF ~r.ok THEN Fail
       ELSE ReadFields(Tail(fs), buf, r.pos, Append(acc, r.val))

\* The body of `for _ in 0..len { v.push(T::read_from(..)?) }`.
ReadItems(T, n, buf, pos, acc) ==
  IF n = 0 THEN Ok(pos, acc)
  ELSE LET r == ReadFrom(T, buf, pos) IN
       IF ~r.ok THEN Fail
       ELSE ReadItems(T, n - 1, buf, r.pos, Append(acc, r.val))

\* Vec<T>::read_from.  Every item takes at least one byte, so a count above
\* the buffer's length fails exactly as Len(buf) + 1 does.
VecReadFrom(T, buf, pos) ==
  LET l == ReadInt(4, buf, pos) IN
  IF ~l.ok THEN Fail
  ELSE ReadItems(T, U32Capped(l.val, Len(buf) + 1), buf, l.pos, <<>>)

ReadFrom(T, buf, pos) ==
  CASE T.k = "u16" -> ReadInt(2, buf, pos)
    [] T.k \in {"i32", "u32"} -> ReadInt(4, buf, pos)
    [] T.k \in {"i64", "u64"} -> ReadInt(8, buf, pos)
    [] T.k = "Bytes" -> BytesReadFrom(buf, pos)
    [] T.k = "tuple" -> ReadFields(T.f, buf, pos, <<>>)
    [] T.k = "vec" -> VecReadFrom(T.item, buf, pos)

RECURSIVE SkipFrom(_, _, _)
RECURSIVE SkipItems(_, _, _, _)

\* The body of `for _ in 0..len { T::skip_from(..)? }`.
SkipItems(T, n, buf, pos) ==
  IF n = 0 THEN Ok(pos, <<>>)
  ELSE LET r == SkipFrom(T, buf, pos) IN
       IF ~r.ok THEN Fail ELSE SkipItems(T, n - 1, buf, r.pos)

\* Vec<T>::skip_from that skips one item too few.
VecSkipFrom_OneShort(T, buf, pos) ==
  LET l == ReadInt(4, buf, pos) IN
  IF ~l.ok THEN Fail
  ELSE LET n == U32Capped(l.val, Len(buf) + 1) IN
       SkipItems(T, IF n = 0 THEN 0 ELSE n - 1, buf, l.pos)

\* Vec<T>::skip_from
VecSkipFrom(T, buf, pos) ==
  LET l == ReadInt(4, buf, pos) IN
  IF ~l.ok THEN Fail
  ELSE SkipItems(T, U32Capped(l.val, Len(buf) + 1), buf, l.pos)

\* Readable::skip_from: read_from(..).map(drop), but for Vec<T>.
SkipFrom(T, buf, pos) ==
  IF T.k = "vec" THEN VecSkipFrom(T.item, buf, pos)
  ELSE LET r == ReadFrom(T, buf, pos) IN
       IF r.ok THEN Ok(r.pos, <<>>) ELSE Fail

\* at_end that never reports the end.
AtEnd_Never(buf, pos) == FALSE

\* DescriptorStream::at_end
AtEnd(buf, pos) == pos = Len(buf)

\* should_be_done that tolerates one trailing byte.
ShouldBeDone_OffByOne(buf, pos) ==
  IF pos + 1 >= Len(buf) THEN "ok" ELSE "extraneous data"

\* DescriptorStream::should_be_done
ShouldBeDone(buf, pos) ==
  IF pos = Len(buf) THEN "ok" ELSE "extraneous data"


(***************************************************************************)
(* The file envelope: TDF$ | version:i32le | body | md5:16.                *)
(*                                                                         *)
(* Md5 stands for the md5 crate's digest, which is not code of this        *)
(* repository.  It is modelled as a 16-byte positional checksum: with s1   *)
(* the sum of the bytes and s2 the sum of (2*i + 1) * msg[i], byte j is    *)
(* (2*j + 1) * s1 + 2 * (j + salt) * s2 + j * Len(msg), modulo 256.  A     *)
(* one-bit change of msg[i] by d changes byte j by d times an odd number,  *)
(* so two messages of one length that differ in one bit have different     *)
(* digests in every byte; messages that differ in more may collide.  That  *)
(* no two inputs one bit apart collide is assumed of MD5, not checked.     *)
(***************************************************************************)
TDF_MAGIC == <<84, 68, 70, 36>>

RECURSIVE RangeSum(_, _, _)
\* The sum modulo 256 of the terms t[lo..hi], by halves.
RangeSum(t, lo, hi) ==
  IF lo > hi THEN 0
  ELSE IF lo = hi THEN t[lo] % 256
  ELSE Bind((lo + hi) \div 2, LAMBDA mid :
         (RangeSum(t, lo, mid) + RangeSum(t, mid + 1, hi)) % 256)

ByteSum(msg, i) == RangeSum(msg, i, Len(msg))

PosSum(msg, i) ==
  Bind([k \in 1..Len(msg) |-> ((2 * k + 1) % 256) * msg[k]],
       LAMBDA t : RangeSum(t, i, Len(t)))

Digest(msg, n, salt) ==
  Bind(msg, LAMBDA m :
  Bind(ByteSum(m, 1), LAMBDA s1 :
  Bind(PosSum(m, 1), LAMBDA s2 :
    [j \in 1..n |->
       ((2 * j + 1) * s1 + 2 * (j + salt) * s2 + j * Len(m)) % 256])))

Md5(msg) == Digest(msg, 16, 0)

\* i32::to_le_bytes of a value held as limbs <<hi, lo>>.
I32ToLeBytes(w) == <<w[2] % 256, w[2] \div 256, w[1] % 256, w[1] \div 256>>

\* read_i32::<LE>: the limbs <<hi, lo>> of four little-endian bytes.
I32FromLeBytes(b) == <<b[4] * 256 + b[3], b[2] * 256 + b[1]>>

\* `data_size as i32` of a buffer length (below 2^31 in the model).
UsizeAsI32(n) == <<n \div 65536, n % 65536>>

\* The MD5 preimage without the version.
EnvelopePreimage_NoVersion(body, version, magic) ==
  body \o I32ToLeBytes(UsizeAsI32(Len(body))) \o magic

\* The four md5.consume calls of FileReadDescriptor::open.
EnvelopePreimage(body, version, magic) ==
  body \o I32ToLeBytes(UsizeAsI32(Len(body))) \o I32ToLeBytes(version)
       \o magic

Panic == [kind |-> "panic"]

Err(msg) == [kind |-> "err", msg |-> msg]

\* FileReadDescriptor::open on the file `<base_path>/<name>s`.  A file with
\* fewer than 16 bytes after the version makes `bytes.len() - 16` overflow:
\* a panic with overflow checks, and without them a wrapped data_size and a
\* panic at the slice `bytes[..data_size]`.
FileOpen(f) ==
  IF ~f.exists THEN Panic
  ELSE IF Len(f.bytes) < 4 THEN Err("io")
  ELSE LET magic == SubSeq(f.bytes, 1, 4) IN
  IF magic # TDF_MAGIC THEN Err("bad magic")
  ELSE IF Len(f.bytes) < 8 THEN Err("io")
  ELSE LET version == I32FromLeBytes(SubSeq(f.bytes, 5, 8))
           bytes == SubSeq(f.bytes, 9, Len(f.bytes))
       IN
  IF Len(bytes) < 16 THEN Panic
  ELSE LET data_size == Len(bytes) - 16
           body == SubSeq(bytes, 1, data_size)
       IN
  IF Md5(EnvelopePreimage(body, version, magic))
       # SubSeq(bytes, data_size + 1, Len(bytes))
  THEN Err("signature mismatch")
  ELSE [kind |-> "ok", version |-> version, data |-> body, pos |-> 0]

\* The file a writer of the format produces for a body and a version.
Pack(body, version) ==
  TDF_MAGIC \o I32ToLeBytes(version) \o body
    \o Md5(body \o I32ToLeBytes(UsizeAsI32(Len(body)))
                \o I32ToLeBytes(version) \o TDF_MAGIC)

Pow2(k) == IF k = 0 THEN 1 ELSE IF k = 1 THEN 2 ELSE IF k = 2 THEN 4
           ELSE IF k = 3 THEN 8 ELSE IF k = 4 THEN 16 ELSE IF k = 5 THEN 32
           ELSE IF k = 6 THEN 64 ELSE 128

FlipBitOf(b, k) ==
  IF (b \div Pow2(k)) % 2 = 1 THEN b - Pow2(k) ELSE b + Pow2(k)

BodyBytes == {170, 187, 204}

RECURSIVE SeqsUpTo(_, _)
SeqsUpTo(S, n) ==
  IF n = 0 THEN {<<>>}
  ELSE LET R == SeqsUpTo(S, n - 1) IN R \cup {Append(r, x) : r \in R, x \in S}

\* 7 and -2.
Versions == {<<0, 7>>, <<65535, 65534>>}

EnvelopeInit ==
  /\ \E body \in SeqsUpTo(BodyBytes, MaxBodyLen), version \in Versions :
       /\ fOrig = [body |-> body, version |-> version]
       /\ fFile = [exists |-> TRUE, bytes |-> Pack(body, version)]
  /\ fDamage = [kind |-> "none"]
  /\ fRes = NoRes

\* One bit of the version, the body or the trailer is flipped on disk.
FFlipBit ==
  /\ fDamage.kind = "none" /\ fRes = NoRes
  /\ \E i \in 5..Len(fFile.bytes), k \in 0..7 :
       /\ fFile' = [fFile EXCEPT !.bytes[i] = FlipBitOf(@, k)]
       /\ fDamage' = [kind |-> "flip", byte |-> i, bit |-> k]
  /\ UNCHANGED <<fOrig, fRes, notEnv>>

\* The file is cut short on disk.
FTruncate ==
  /\ fDamage.kind = "none" /\ fRes = NoRes
  /\ \E n \in 0..(Len(fFile.bytes) - 1) :
       /\ fFile' = [fFile EXCEPT !.bytes = SubSeq(@, 1, n)]
       /\ fDamage' = [kind |-> "cut", len |-> n]
  /\ UNCHANGED <<fOrig, fRes, notEnv>>

\* The file is removed from disk.
FRemove ==
  /\ fDamage.kind = "none" /\ fRes = NoRes
  /\ fFile' = [exists |-> FALSE, bytes |-> <<>>]
  /\ fDamage' = [kind |-> "removed"]
  /\ UNCHANGED <<fOrig, fRes, notEnv>>

\* FileReadDescriptor::open
FOpen ==
  /\ fRes = NoRes
  /\ fRes' = FileOpen(fFile)
  /\ UNCHANGED <<fFile, fOrig, fDamage, notEnv>>

EnvelopeNext == FFlipBit \/ FTruncate \/ FRemove \/ FOpen

InitEnvelope == EnvelopeInit /\ IdleBut("envelope")

SpecEnvelope == InitEnvelope /\ [][EnvelopeNext]_vars

(***************************************************************************)
(* C1.  open returns an envelope only when the last 16 bytes of the file   *)
(* are MD5(body || len(body):i32le || version:i32le || "TDF$"); a file     *)
(* that differs from such a file in one bit of the version, the body or    *)
(* the trailer fails with the signature error; on success the stream is    *)
(* exactly the body, at position 0, and the version is the header's.       *)
(***************************************************************************)
C1_EnvelopeMd5 ==
  LET b == fFile.bytes
      n == Len(b) - 24
  IN
  /\ fRes.kind = "ok" =>
       /\ fFile.exists /\ n >= 0
       /\ SubSeq(b, 1, 4) = <<84, 68, 70, 36>>
       /\ SubSeq(b, n + 9, n + 24) =
            Md5(SubSeq(b, 9, n + 8)
                  \o <<n % 256, (n \div 256) % 256, (n \div 65536) % 256,
                       n \div 16777216>>
                  \o SubSeq(b, 5, 8) \o <<84, 68, 70, 36>>)
       /\ fRes.data = SubSeq(b, 9, n + 8) /\ fRes.pos = 0
       /\ fRes.version = <<b[8] * 256 + b[7], b[6] * 256 + b[5]>>
  /\ (fRes # NoRes /\ fDamage.kind = "flip") =>
       fRes = Err("signature mismatch")
  /\ (fRes # NoRes /\ fDamage.kind = "none") =>
       /\ fRes.kind = "ok"
       /\ fRes.data = fOrig.body /\ fRes.version = fOrig.version

\* open of a file with a three-byte body and one bit of the version flipped.
C1_Witness ==
  /\ fRes = Err("signature mismatch")
  /\ fDamage.kind = "flip" /\ fDamage.byte \in 5..8
  /\ Len(fOrig.body) = 3

\* C19: open of an existing file that starts with the magic and a four-byte
\* version and has fewer than 16 bytes after the version returns an error
\* (it returns no envelope and does not panic on `bytes.len() - 16`).
C19_ShortFile ==
  (/\ fRes # NoRes
   /\ fFile.exists
   /\ Len(fFile.bytes) >= 8
   /\ SubSeq(fFile.bytes, 1, 4) = <<84, 68, 70, 36>>
   /\ Len(fFile.bytes) - 8 < 16)
    => fRes.kind = "err"

(***************************************************************************)
(* The encrypted block: outerKey:16 | ciphertext:16k.                      *)
(*                                                                         *)
(* An MtpAuthKey (256 bytes) is held as a number naming the key material;  *)
(* 0 is MtpAuthKey::BLANK.  SHA-1 (ring) and AES-256-IGE (grammers_crypto) *)
(* are not code of this repository.  Sha1 is a 20-byte positional checksum *)
(* of the same kind as Md5.  The cipher keeps IGE's shape: byte i of a     *)
(* block depends on the key schedule, on the cipher byte, and on the       *)
(* cipher and plain bytes one block earlier (the IV for the first block).  *)
(***************************************************************************)
Sha1(msg) == Digest(msg, 20, 5)

SumBytes(b, i) ==
  Bind([k \in 1..Len(b) |-> k * b[k]], LAMBDA t : RangeSum(t, i, Len(t)))

\* MtpAuthKey::prepare_aes_oldmtp(msg_key, .., send = false): the AES key
\* and IV are digests of slices of the auth key and of the message key.
PrepareAesOldmtp(key, msg_key) ==
  LET m == SumBytes(msg_key, 1) IN
  [ks  |-> (37 * key + m + 11) % 256,
   iv1 |-> (101 * key + 3 * m + 5) % 256,
   iv2 |-> (59 * key + 7 * m + 1) % 256]

RECURSIVE IgePlainAt(_, _, _)
\* The i-th byte aes::ige_decrypt yields.
IgePlainAt(src, aes, i) ==
  LET pc == IF i <= 16 THEN aes.iv1 ELSE src[i - 16]
      pp == IF i <= 16 THEN aes.iv2 ELSE IgePlainAt(src, aes, i - 16)
  IN (src[i] - pp - aes.ks + pc + 512) % 256

\* aes::ige_decrypt
IgeDecrypt(src, aes) ==
  Bind(<<src, aes>>,
       LAMBDA v : [i \in 1..Len(v[1]) |-> IgePlainAt(v[1], v[2], i)])

RECURSIVE IgeCipherAt(_, _, _)
\* The i-th byte of the inverse of IgeDecrypt.
IgeCipherAt(plain, aes, i) ==
  LET pc == IF i <= 16 THEN aes.iv1 ELSE IgeCipherAt(plain, aes, i - 16)
      pp == IF i <= 16 THEN aes.iv2 ELSE plain[i - 16]
  IN (plain[i] - pc + aes.ks + pp + 512) % 256

\* The inverse of IgeDecrypt, by which a writer of the format encrypts.
IgeEncrypt(plain, aes) ==
  Bind(<<plain, aes>>,
       LAMBDA v : [i \in 1..Len(v[1]) |-> IgeCipherAt(v[1], v[2], i)])

\* aes_decrypt_local
AesDecryptLocal(src, key, key128) ==
  IgeDecrypt(src, PrepareAesOldmtp(key, key128))

\* The size check with `<` for `<=`.
BadEncryptedSize_Lt(n) == n < 16 \/ n % 16 # 0

\* encrypted.len() <= 16 || encrypted.len() & 0xF != 0
BadEncryptedSize(n) == n <= 16 \/ n % 16 # 0

\* The SHA-1 check left out.
ShaMismatch_Dropped(decrypted, encrypted_key) == FALSE

\* sha.as_ref()[..16] != encrypted_key[..]
ShaMismatch(decrypted, encrypted_key) ==
  SubSeq(Sha1(decrypted), 1, 16) # encrypted_key

\* u32::from_le_bytes(decrypted[..4])
U32FromLeBytes(b) == <<b[4] * 256 + b[3], b[2] * 256 + b[1]>>

\* The declared-length check with the lower bound one block further down.
BadDeclaredLen_TwoBlocks(data_len, decrypted_len, full_len) ==
  \/ ~U32Small(data_len)
  \/ U32Nat(data_len) > decrypted_len
  \/ U32Nat(data_len) <= full_len - 32
  \/ U32Nat(data_len) < 4

\* data_len > decrypted.len() || data_len <= full_len - 16 || data_len < FOUR
\* (a data_len of 2^31 or more is above every length of the model).
BadDeclaredLen(data_len, decrypted_len, full_len) ==
  \/ ~U32Small(data_len)
  \/ U32Nat(data_len) > decrypted_len
  \/ U32Nat(data_len) <= full_len - 16
  \/ U32Nat(data_len) < 4

\* EncryptedDescriptor::decrypt_local.  `steps` lists the stages it ran.
DecryptLocal(encrypted, key) ==
  IF BadEncryptedSize(Len(encrypted))
  THEN [kind |-> "err", msg |-> "bad encrypted part size", steps |-> <<"size">>]
  ELSE
    LET full_len == Len(encrypted) - 16
        encrypted_key == SubSeq(encrypted, 1, 16)
        encrypted_data == SubSeq(encrypted, 17, Len(encrypted))
        decrypted == AesDecryptLocal(encrypted_data, key, encrypted_key)
    IN
    IF ShaMismatch(decrypted, encrypted_key)
    THEN [kind |-> "err", msg |-> "bad decrypt key",
          steps |-> <<"size", "decrypt", "sha1">>]
    ELSE
      LET data_len == U32FromLeBytes(SubSeq(decrypted, 1, 4)) IN
      IF BadDeclaredLen(data_len, Len(decrypted), full_len)
      THEN [kind |-> "err", msg |-> "bad decrypted part",
            steps |-> <<"size", "decrypt", "sha1", "len">>]
      ELSE [kind |-> "ok", data |-> SubSeq(decrypted, 1, U32Nat(data_len)),
            pos |-> 4, steps |-> <<"size", "decrypt", "sha1", "len">>]

\* The buffer a writer of the format produces for a padded plaintext.
EncryptLocal(plain, key) ==
  LET outer == SubSeq(Sha1(plain), 1, 16) IN
  outer \o IgeEncrypt(plain, PrepareAesOldmtp(key, outer))

\* u32::to_le_bytes of a value held as limbs.
U32ToLeBytes(w) == <<w[2] % 256, w[2] \div 256, w[1] % 256, w[1] \div 256>>

\* A plaintext of n bytes whose first four declare the length d.
PlainOf(d, n) ==
  U32ToLeBytes(d) \o [i \in 1..(n - 4) |-> (17 * i + 3) % 256]

AuthKeys == {0, 1, 2}

\* The declared lengths tried against a plaintext of n bytes: those around
\* 4, n - 32, n - 16 and n, and two of 2^31 and more.
DeclaredLens(n) ==
  {<<0, d>> : d \in ({0, 3, 4, 5, n - 33, n - 32, n - 31, n - 17, n - 16,
                      n - 15, n - 1, n, n + 1} \cap 0..65535)}
    \cup {<<32768, 4>>, <<65535, 65535>>}

DecryptInit ==
  /\ \E k \in 1..MaxBlocks, key \in AuthKeys \ {0} :
       \E d \in DeclaredLens(16 * k) :
         /\ dOrig = [plain |-> PlainOf(d, 16 * k), key |-> key, declared |-> d]
         /\ dEnc = EncryptLocal(PlainOf(d, 16 * k), key)
         /\ dKey = key
  /\ dDamage = [kind |-> "none"]
  /\ dRes = NoRes

\* One bit of the buffer (outer key or ciphertext) is flipped.
DFlipBit ==
  /\ dDamage.kind = "none" /\ dRes = NoRes
  /\ \E i \in 1..Len(dEnc), k \in 0..7 :
       /\ dEnc' = [dEnc EXCEPT ![i] = FlipBitOf(@, k)]
       /\ dDamage' = [kind |-> "flip", byte |-> i, bit |-> k]
  /\ UNCHANGED <<dKey, dOrig, dRes, notDec>>

\* The buffer is cut to n bytes, or grown by up to 16 zero bytes.
DResize ==
  /\ dDamage.kind = "none" /\ dRes = NoRes
  /\ \E n \in 0..(Len(dEnc) + 16) :
       /\ n # Len(dEnc)
       /\ dEnc' = [i \in 1..n |-> IF i <= Len(dEnc) THEN dEnc[i] ELSE 0]
       /\ dDamage' = [kind |-> "resize", len |-> n]
  /\ UNCHANGED <<dKey, dOrig, dRes, notDec>>

\* decrypt_local is handed another auth key than the one that encrypted.
DWrongKey ==
  /\ dDamage.kind = "none" /\ dRes = NoRes
  /\ \E key \in AuthKeys \ {dKey} :
       /\ dKey' = key
       /\ dDamage' = [kind |-> "key"]
  /\ UNCHANGED <<dEnc, dOrig, dRes, notDec>>

\* EncryptedDescriptor::decrypt_local
DDecrypt ==
  /\ dRes = NoRes
  /\ dRes' = DecryptLocal(dEnc, dKey)
  /\ UNCHANGED <<dEnc, dKey, dOrig, dDamage, notDec>>

DecryptNext == DFlipBit \/ DResize \/ DWrongKey \/ DDecrypt

InitDecrypt == DecryptInit /\ IdleBut("decrypt")

SpecDecrypt == InitDecrypt /\ [][DecryptNext]_vars

\* What decrypt_local's input decrypts to, read off the buffer itself.
DPlainOfBuffer ==
  AesDecryptLocal(SubSeq(dEnc, 17, Len(dEnc)), dKey, SubSeq(dEnc, 1, 16))

\* The SHA-1 prefix of the decrypted buffer equals the outer key.
DShaMatches == SubSeq(Sha1(DPlainOfBuffer), 1, 16) = SubSeq(dEnc, 1, 16)

\* decrypt_local got past its size check.
DSized == dRes # NoRes /\ Len(dEnc) > 16 /\ Len(dEnc) % 16 = 0

(***************************************************************************)
(* C2.  decrypt_local yields a stream only if the first 16 bytes of        *)
(* SHA1(decrypted plaintext) equal the outer key at the front of the       *)
(* input; on a mismatch it fails with the bad-decrypt-key error, without   *)
(* reaching the declared-length check.  In the model a flipped bit of the  *)
(* buffer always gives such a mismatch; a wrong auth key gives one for     *)
(* some buffers and a checksum collision for others.                       *)
(***************************************************************************)
C2_ShaBeforeLen ==
  DSized =>
    /\ dRes.kind = "ok" => DShaMatches
    /\ ~DShaMatches =>
         /\ dRes.kind = "err" /\ dRes.msg = "bad decrypt key"
         /\ dRes.steps = <<"size", "decrypt", "sha1">>
    /\ dDamage.kind = "flip" => ~DShaMatches

\* A wrong key: SHA-1 mismatch on a plaintext whose first four bytes would
\* not have passed the declared-length check either.
C2_Witness ==
  /\ DSized /\ dDamage.kind = "key"
  /\ dRes.kind = "err" /\ dRes.msg = "bad decrypt key"
  /\ BadDeclaredLen(U32FromLeBytes(SubSeq(DPlainOfBuffer, 1, 4)),
                    Len(dEnc) - 16, Len(dEnc) - 16)

\* The declared length of the decrypted buffer as a number, -1 when it is
\* 2^31 or more.
DDeclared ==
  LET b == SubSeq(DPlainOfBuffer, 1, 4) IN
  IF b[4] >= 128 THEN -1
  ELSE ((b[4] * 256 + b[3]) * 256 + b[2]) * 256 + b[1]

(***************************************************************************)
(* C3, as claimed.  A plaintext of plainLen bytes that passes the SHA-1    *)
(* check is accepted exactly when its declared length d has d >= 4,        *)
(* d <= plainLen and d > plainLen - 32.                                    *)
(***************************************************************************)
C3_Original ==
  (DSized /\ DShaMatches) =>
    LET plainLen == Len(dEnc) - 16
        d == DDeclared
    IN (dRes.kind = "ok") <=>
         (d # -1 /\ d >= 4 /\ d <= plainLen /\ d > plainLen - 32)

(***************************************************************************)
(* C3, amended.  A plaintext of plainLen bytes that passes the SHA-1 check *)
(* is accepted exactly when its declared length d has d >= 4,              *)
(* d <= plainLen and d > plainLen - 16; every other d fails with the       *)
(* bad-decrypted-part error.                                               *)
(***************************************************************************)
C3_DeclaredLen ==
  (DSized /\ DShaMatches) =>
    LET plainLen == Len(dEnc) - 16
        d == DDeclared
    IN IF d # -1 /\ d >= 4 /\ d <= plainLen /\ d > plainLen - 16
       THEN dRes.kind = "ok"
       ELSE dRes.kind = "err" /\ dRes.msg = "bad decrypted part"

\* A 32-byte plaintext declaring 17 bytes is accepted.
C3_Witness ==
  /\ DSized /\ DShaMatches
  /\ Len(dEnc) = 48 /\ DDeclared = 17
  /\ dRes.kind = "ok"

(***************************************************************************)
(* C4.  decrypt_local fails with the bad-encrypted-size error for every    *)
(* buffer whose length is <= 16 or not a multiple of 16, before anything   *)
(* is decrypted or hashed; every buffer of 16k + 16 bytes, k >= 1, passes  *)
(* the size check.                                                         *)
(***************************************************************************)
C4_EncryptedSize ==
  dRes # NoRes =>
    IF Len(dEnc) <= 16 \/ Len(dEnc) % 16 # 0
    THEN /\ dRes.kind = "err" /\ dRes.msg = "bad encrypted part size"
         /\ dRes.steps = <<"size">>
    ELSE /\ dRes.kind = "err" => dRes.msg # "bad encrypted part size"
         /\ dRes.steps[2] = "decrypt"

\* A buffer of exactly 16 bytes is refused.
C4_Witness ==
  /\ dRes # NoRes /\ Len(dEnc) = 16
  /\ dRes.msg = "bad encrypted part size"

(***************************************************************************)
(* The account map: StorageAccount::read_map's loop over the decrypted map *)
(* stream, one tagged record per iteration.                                *)
(***************************************************************************)
\* enum LocalStorageKey
UserMap == 0
Draft == 1
DraftPosition == 2
LegacyImages == 3
Locations == 4
LegacyStickerImages == 5
LegacyAudios == 6
RecentStickersOld == 7
BackgroundOldOld == 8
UserSettings == 9
RecentHashtagsAndBots == 10
StickersOld == 11
SavedPeersOld == 12
ReportSpamStatusesOld == 13
SavedGifsOld == 14
SavedGifs == 15
StickersKeys == 16
TrustedBots == 17
FavedStickers == 18
ExportSettings == 19
BackgroundOld == 20
SelfSerialized == 21
MasksKeys == 22

LocalStorageKeys ==
  { UserMap, Draft, DraftPosition, LegacyImages, Locations,
    LegacyStickerImages, LegacyAudios, RecentStickersOld, BackgroundOldOld,
    UserSettings, RecentHashtagsAndBots, StickersOld, SavedPeersOld,
    ReportSpamStatusesOld, SavedGifsOld, SavedGifs, StickersKeys,
    TrustedBots, FavedStickers, ExportSettings, BackgroundOld,
    SelfSerialized, MasksKeys }

\* LocalStorageKey::try_from that looks at the low 16 bits of the tag only.
IsLocalStorageKey_LowHalf(w) == w[2] \in LocalStorageKeys

\* LocalStorageKey::try_from(u32) succeeds (#[derive(TryFromPrimitive)]).
IsLocalStorageKey(w) == w[1] = 0 /\ w[2] \in LocalStorageKeys

\* `let count = map.read_u32()?; for _ in 0..count { <reads> }`: no read
\* takes less than one byte, so a count above the buffer's length fails
\* exactly as Len(buf) + 1 does.
ReadCounted(fields, buf, pos) ==
  LET count == ReadInt(4, buf, pos) IN
  IF ~count.ok THEN Fail
  ELSE ReadItems(TTuple(fields), U32Capped(count.val, Len(buf) + 1),
                 buf, count.pos, <<>>)

\* An assignment to keys.settings that keeps a key once one is set.
SetSettings_KeepFirst(settings, key) ==
  IF settings = FileKeyDefault THEN key ELSE settings

\* self.keys.settings = FileKey(map.read_u64()?)
SetSettings(settings, key) == key

\* The match arm of one key type, down to where the loop goes round again:
\* the payload reads in order, each `?` returning the io error.
MapArm(key_type, buf, pos, settings) ==
  LET Dropped(r) ==
        IF r.ok THEN [kind |-> "ok", pos |-> r.pos, settings |-> settings]
        ELSE Err("io")
      Skipped(T) == Dropped(ReadFrom(T, buf, pos))
  IN
  CASE key_type \in {Draft, DraftPosition} ->
         Dropped(ReadCounted(<<TU64, TU64>>, buf, pos))
    [] key_type = SelfSerialized -> Skipped(TBytes)
    [] key_type \in {LegacyImages, LegacyStickerImages, LegacyAudios} ->
         Dropped(ReadCounted(<<TU64, TU64, TU64, TU32>>, buf, pos))
    [] key_type = UserSettings ->
         LET r == ReadFrom(TU64, buf, pos) IN
         IF r.ok THEN [kind |-> "ok", pos |-> r.pos,
                       settings |-> SetSettings(settings, r.val)]
         ELSE Err("io")
    [] key_type \in {Locations, ReportSpamStatusesOld, TrustedBots,
                     RecentStickersOld, BackgroundOldOld,
                     RecentHashtagsAndBots, StickersOld, FavedStickers,
                     SavedGifsOld, SavedGifs, SavedPeersOld, ExportSettings} ->
         Skipped(TU64)
    [] key_type = BackgroundOld -> Skipped(TTuple(<<TU64, TU64>>))
    [] key_type = StickersKeys -> Skipped(TTuple(<<TU64, TU64, TU64, TU64>>))
    [] key_type = MasksKeys -> Skipped(TTuple(<<TU64, TU64, TU64>>))
    [] key_type = UserMap -> Err("UserMap")

\* One iteration of `while !map.at_end()`: the tag, then its arm.
ReadMapRecord(buf, pos, settings) ==
  LET t == ReadInt(4, buf, pos) IN
  IF ~t.ok THEN Err("io")
  ELSE IF ~IsLocalStorageKey(t.val)
  THEN Err("unknown key type in encrypted map")
  ELSE MapArm(t.val[2], buf, t.pos, settings)

\* Big-endian bytes of a value held as 16-bit limbs.
RECURSIVE BeBytes(_)
BeBytes(w) ==
  IF w = <<>> THEN <<>>
  ELSE <<Head(w) \div 256, Head(w) % 256>> \o BeBytes(Tail(w))

KeyA == <<57005, 48879, 51966, 47806>>

KeyB == <<258, 772, 1286, 1800>>

PeerF == <<65535, 65535, 65535, 65535>>

\* A well-formed payload for a tag below 2^16; an unknown tag is followed
\* by eight bytes no one reads.
MapPayload(t) ==
  CASE t \in {Draft, DraftPosition} ->
         BeBytes(<<0, 1>>) \o BeBytes(KeyB) \o BeBytes(PeerF)
    [] t \in {LegacyImages, LegacyStickerImages, LegacyAudios} ->
         BeBytes(<<0, 1>>) \o BeBytes(KeyB) \o BeBytes(KeyA) \o BeBytes(PeerF)
           \o BeBytes(<<0, 512>>)
    [] t = BackgroundOld -> BeBytes(KeyB) \o BeBytes(KeyA)
    [] t = StickersKeys ->
         BeBytes(KeyB) \o BeBytes(KeyA) \o BeBytes(KeyB) \o BeBytes(KeyA)
    [] t = MasksKeys -> BeBytes(KeyB) \o BeBytes(KeyA) \o BeBytes(KeyB)
    [] t = SelfSerialized -> BeBytes(<<0, 2>>) \o <<1, 2>>
    [] t = UserSettings -> BeBytes(KeyA)
    [] OTHER -> BeBytes(KeyB)

\* A record as written: its tag word and the bytes after it.
MapRec(tag, payload) == [tag |-> tag, payload |-> payload]

\* The records a map may hold anywhere.
MapPrefixRecs ==
  { MapRec(<<0, Draft>>, MapPayload(Draft)),
    MapRec(<<0, UserSettings>>, BeBytes(KeyA)),
    MapRec(<<0, UserSettings>>, BeBytes(KeyB)),
    MapRec(<<0, SelfSerialized>>, MapPayload(SelfSerialized)) }

\* The records tried in one place of the map: every tag up to 0x18, tags
\* of 2^16 and more, counts of 0 and 2 and lengths of 0 and 0xFFFFFFFF.
MapMidRecs ==
  {MapRec(<<0, t>>, MapPayload(t)) : t \in 0..24}
    \cup { MapRec(<<1, UserSettings>>, BeBytes(KeyA)),
           MapRec(<<65535, 65535>>, BeBytes(KeyA)),
           MapRec(<<0, 256 + Draft>>, MapPayload(Draft)),
           MapRec(<<0, UserSettings>>, BeBytes(KeyB)),
           MapRec(<<0, Draft>>, BeBytes(<<0, 0>>)),
           MapRec(<<0, DraftPosition>>,
                  BeBytes(<<0, 2>>) \o BeBytes(KeyB) \o BeBytes(PeerF)
                    \o BeBytes(KeyA) \o BeBytes(PeerF)),
           MapRec(<<0, LegacyAudios>>, BeBytes(<<0, 0>>)),
           MapRec(<<0, SelfSerialized>>, BeBytes(<<0, 0>>)),
           MapRec(<<0, SelfSerialized>>, BeBytes(<<65535, 65535>>)) }

RECURSIVE EncodeRecs(_)
EncodeRecs(recs) ==
  IF recs = <<>> THEN <<>>
  ELSE BeBytes(Head(recs).tag) \o Head(recs).payload \o EncodeRecs(Tail(recs))

\* What decrypt_local leaves of a plaintext that declares its own length:
\* the four length bytes, then the records less the last `cut` bytes.
MapStream(recs, cut) ==
  LET body == EncodeRecs(recs)
      n == 4 + Len(body) - cut
  IN U32ToLeBytes(<<0, n>>) \o SubSeq(body, 1, Len(body) - cut)

MapInit ==
  /\ \E pre \in SeqsUpTo(MapPrefixRecs, MaxMapPrefix),
        mid \in {<<r>> : r \in MapMidRecs} \cup {<<>>},
        post \in {<<>>, <<MapRec(<<0, UserSettings>>, BeBytes(KeyB))>>},
        cut \in {0, 3} :
       /\ cut <= Len(EncodeRecs(pre \o mid \o post))
       /\ mRecs = pre \o mid \o post
       /\ mBuf = MapStream(pre \o mid \o post, cut)
  /\ mPos = 4
  /\ mPc = "reading"
  /\ mErr = ""
  /\ mAccount \in {[local_key |-> k, settings |-> FileKeyDefault] : k \in {1, 2}}
  /\ mLast = NoOp

\* One iteration of the loop of read_map.
MReadRecord ==
  /\ mPc = "reading"
  /\ ~AtEnd(mBuf, mPos)
  /\ LET r == ReadMapRecord(mBuf, mPos, mAccount.settings) IN
     /\ mLast' = [op |-> "record", before |-> mPos, account |-> mAccount]
     /\ IF r.kind = "ok"
        THEN /\ mPos' = r.pos
             /\ mAccount' = [mAccount EXCEPT !.settings = r.settings]
             /\ UNCHANGED <<mPc, mErr>>
        ELSE /\ mPc' = "failed"
             /\ mErr' = r.msg
             /\ UNCHANGED <<mPos, mAccount>>
  /\ UNCHANGED <<mBuf, mRecs, notMap>>

\* The loop ends at the end of the stream and read_map returns Ok(()).
MFinish ==
  /\ mPc = "reading"
  /\ AtEnd(mBuf, mPos)
  /\ mPc' = "done"
  /\ mLast' = [op |-> "finish", before |-> mPos, account |-> mAccount]
  /\ UNCHANGED <<mBuf, mPos, mErr, mAccount, mRecs, notMap>>

MapNext == MReadRecord \/ MFinish

InitMap == MapInit /\ IdleBut("map")

SpecMap == InitMap /\ [][MapNext]_vars

\* The offset in the stream of the end of the k-th record as written.
MapOffset(k) == 4 + Len(EncodeRecs(SubSeq(mRecs, 1, k)))

\* The record as written that starts where the last step started.
MapMet ==
  mRecs[CHOOSE i \in 1..Len(mRecs) : MapOffset(i - 1) = mLast.before]

\* The offset of the end of that record.
MapMetEnd == mLast.before + 4 + Len(MapMet.payload)

\* The key of the last UserSettings record among the records written.
RECURSIVE LastSettingsKey(_)
LastSettingsKey(recs) ==
  IF recs = <<>> THEN BeBytes(FileKeyDefault)
  ELSE IF recs[Len(recs)].tag = <<0, UserSettings>>
  THEN recs[Len(recs)].payload
  ELSE LastSettingsKey(SubSeq(recs, 1, Len(recs) - 1))

\* C8 as the specification states it: read_map fails as soon as it meets
\* one of the tags 0x00, 0x07, 0x08, 0x15 or a tag above 0x16.
C8_Original ==
  (mLast.op = "record" /\ mLast.before + 4 <= Len(mBuf)
     /\ (MapMet.tag[1] # 0 \/ MapMet.tag[2] \in {0, 7, 8, 21}
           \/ MapMet.tag[2] > 22))
    => mPc = "failed"

\* C8, amended: every iteration of read_map starts at a record; it fails,
\* leaving the account as it was, exactly when the tag is 0x00 (UserMap,
\* error "UserMap"), a value above 0x16 (error "unknown key type in
\* encrypted map") or the record is cut short by the end of the stream (io
\* error); every whole record with a tag 0x01..0x16, the tags 0x07, 0x08
\* and 0x15 among them, is consumed to its end and the loop goes on.  Once
\* read_map has failed it takes no further step.
C8_FatalTags ==
  /\ mPc = "failed" => ~ENABLED MapNext
  /\ mLast.op = "record" =>
       /\ \E i \in 1..Len(mRecs) : MapOffset(i - 1) = mLast.before
       /\ LET t == MapMet.tag
              fatal == t[1] # 0 \/ t[2] = 0 \/ t[2] > 22
          IN IF mLast.before + 4 > Len(mBuf)
             THEN mPc = "failed" /\ mErr = "io"
             ELSE IF fatal
             THEN /\ mPc = "failed"
                  /\ mErr = IF t = <<0, 0>> THEN "UserMap"
                            ELSE "unknown key type in encrypted map"
             ELSE IF MapMetEnd > Len(mBuf)
             THEN mPc = "failed" /\ mErr = "io"
             ELSE mPc = "reading" /\ mErr = "" /\ mPos = MapMetEnd
       /\ mPc = "failed" => mPos = mLast.before /\ mAccount = mLast.account

\* read_map has failed on the unknown tag 0x17 after reading a record,
\* with a whole record after it left unread.
C8_Witness ==
  /\ mPc = "failed"
  /\ mErr = "unknown key type in encrypted map"
  /\ mLast.op = "record"
  /\ mLast.before > 4
  /\ MapMet.tag = <<0, 23>>
  /\ MapMetEnd < Len(mBuf)
  /\ MapMetEnd + 12 = Len(mBuf)

\* C9: a record sets keys.settings to its own key if it is a UserSettings
\* record and leaves it alone if not, local_key is never changed, and
\* after a successful read_map keys.settings is the key of the last
\* UserSettings record of the map (FileKey 0 if there is none).
C9_SettingsKey ==
  /\ mLast.op # "none" => mAccount.local_key = mLast.account.local_key
  /\ mLast.op = "finish" => mAccount = mLast.account
  /\ (mLast.op = "record" /\ mPc = "reading") =>
       IF MapMet.tag = <<0, UserSettings>>
       THEN BeBytes(mAccount.settings) = MapMet.payload
       ELSE mAccount.settings = mLast.account.settings
  /\ mPc = "done" =>
       /\ mBuf = MapStream(mRecs, 0)
       /\ BeBytes(mAccount.settings) = LastSettingsKey(mRecs)

\* read_map has succeeded on a map with two UserSettings records of
\* different keys and a record of another category after them, and on the
\* way the key was 0xDEADBEEFCAFEBABE.
C9_Witness ==
  /\ mPc = "done"
  /\ Len(mRecs) = 3
  /\ mRecs[1] = MapRec(<<0, UserSettings>>, BeBytes(KeyB))
  /\ mRecs[2] = MapRec(<<0, UserSettings>>, BeBytes(KeyA))
  /\ mRecs[3].tag = <<0, Draft>>
  /\ mAccount.settings = KeyA
  /\ mAccount.local_key = 2

(***************************************************************************)
(* The settings stream: ReadSettingsContext::read_setting, called until    *)
(* the decrypted settings stream is at its end.                            *)
(***************************************************************************)
\* enum DatabaseBlockId: the variants read_setting has an arm for.
AutoStart == 6
StartMinimized == 7
SeenTrayTooltip == 10
AutoUpdate == 12
LastUpdateCheck == 13
SendToMenu == 29
DialogLastPath == 35
RecentStickers == 38
UseExternalVideoPlayer == 73
SessionSettings == 77
LangPackKey == 78
ThemeKey == 84
TileBackground == 85
AnimationsDisabled == 87
ScalePercent == 88
CacheSettings == 92
ApplicationSettings == 94
FallbackProductionConfig == 96
BackgroundKey == 97

\* enum DatabaseBlockId: every discriminant (0x10, 0x1b, 0x2a..0x2f and
\* 0x3c..0x3f are not variants).
DatabaseBlockIds ==
  (0..15) \cup (17..26) \cup (28..41) \cup (48..59) \cup (64..97)
    \cup {333, 444, 666}

\* DatabaseBlockId::try_from(u32) succeeds (#[derive(TryFromPrimitive)]).
IsDatabaseBlockId(w) == w[1] = 0 /\ w[2] \in DatabaseBlockIds

\* The value of todo!() in the arm `x => todo!("{:?}", x)`.
Todo == Panic

\* read_setting: the block id, then the arm of the match.  `val` is what
\* the arm read (and printed), `calls` the readers it called on with it:
\* no arm calls anything but the reads of the stream and println!.
ReadSetting(buf, pos) ==
  LET id == ReadInt(4, buf, pos)
      Done(r) == IF r.ok
                 THEN [kind |-> "ok", pos |-> r.pos, val |-> r.val,
                       calls |-> <<>>]
                 ELSE Err("io")
      Skip(T) == Done(SkipFrom(T, buf, id.pos))
      Read(fields) == Done(ReadFields(fields, buf, id.pos, <<>>))
      block_id == id.val[2]
  IN
  IF ~id.ok THEN Err("io")
  ELSE IF ~IsDatabaseBlockId(id.val)
  THEN Err("unknown block id in read_setting")
  ELSE
  CASE block_id = UseExternalVideoPlayer -> Skip(TU32)
    [] block_id = CacheSettings -> Skip(TTuple(<<TI32, TI32, TI64, TI64>>))
    [] block_id = SessionSettings -> Skip(TBytes)
    [] block_id = RecentStickers -> Skip(TVec(TTuple(<<TU64, TU16>>)))
    [] block_id \in {AutoStart, StartMinimized, SendToMenu, SeenTrayTooltip,
                     AutoUpdate, ScalePercent, LastUpdateCheck,
                     AnimationsDisabled} -> Skip(TI32)
    [] block_id = FallbackProductionConfig -> Skip(TBytes)
    [] block_id = ApplicationSettings -> Read(<<TBytes>>)
    [] block_id = DialogLastPath -> Skip(TBytes)
    [] block_id = ThemeKey -> Read(<<TU64, TU64, TU32>>)
    [] block_id = BackgroundKey -> Read(<<TU64, TU64>>)
    [] block_id = TileBackground -> Read(<<TI32, TI32>>)
    [] block_id = LangPackKey -> Skip(TU64)
    [] OTHER -> Todo

\* A payload of the shape read_setting reads for a block id below 2^16;
\* four bytes for a block id it has no arm for.
SettingPayload(b) ==
  CASE b = CacheSettings ->
         BeBytes(<<0, 1>>) \o BeBytes(<<0, 2>>) \o BeBytes(KeyA) \o BeBytes(KeyB)
    [] b \in {SessionSettings, FallbackProductionConfig, ApplicationSettings,
              DialogLastPath} -> BeBytes(<<0, 2>>) \o <<1, 2>>
    [] b = RecentStickers ->
         BeBytes(<<0, 1>>) \o BeBytes(KeyA) \o BeBytes(<<7>>)
    [] b = ThemeKey -> BeBytes(KeyA) \o BeBytes(KeyB) \o BeBytes(<<0, 1>>)
    [] b = BackgroundKey -> BeBytes(KeyA) \o BeBytes(KeyB)
    [] b = TileBackground -> BeBytes(<<0, 1>>) \o BeBytes(<<0, 0>>)
    [] b = LangPackKey -> BeBytes(KeyB)
    [] OTHER -> BeBytes(<<0, 1>>)

\* The records a settings stream may hold anywhere.
SettingPrefixRecs ==
  {MapRec(<<0, b>>, SettingPayload(b)) : b \in {AutoStart, ThemeKey, RecentStickers}}

\* The records tried in one place of the stream: every block id up to
\* 0x63, the three above, and ids that are no DatabaseBlockId.
SettingMidRecs ==
  {MapRec(<<0, b>>, SettingPayload(b)) : b \in (0..99) \cup {333, 334, 444, 666}}
    \cup { MapRec(<<1, AutoStart>>, SettingPayload(AutoStart)),
           MapRec(<<65535, 65535>>, SettingPayload(AutoStart)),
           MapRec(<<0, RecentStickers>>, BeBytes(<<0, 0>>)),
           MapRec(<<0, DialogLastPath>>, BeBytes(<<65535, 65535>>)) }

SettingsInit ==
  /\ \E pre \in SeqsUpTo(SettingPrefixRecs, MaxSettingsPrefix),
        mid \in {<<r>> : r \in SettingMidRecs} \cup {<<>>},
        post \in {<<>>, <<MapRec(<<0, TileBackground>>,
                                 SettingPayload(TileBackground))>>},
        cut \in {0, 3} :
       /\ cut <= Len(EncodeRecs(pre \o mid \o post))
       /\ rsRecs = pre \o mid \o post
       /\ rsBuf = MapStream(pre \o mid \o post, cut)
  /\ rsPos = 4
  /\ rsPc = "reading"
  /\ rsErr = ""
  /\ rsLast = NoOp

\* One iteration of `while !settings.at_end()`: ctx.read_setting(..)?
RsReadSetting ==
  /\ rsPc = "reading"
  /\ ~AtEnd(rsBuf, rsPos)
  /\ LET r == ReadSetting(rsBuf, rsPos) IN
     /\ rsLast' = [op |-> "setting", before |-> rsPos,
                   val |-> IF r.kind = "ok" THEN r.val ELSE <<>>,
                   calls |-> IF r.kind = "ok" THEN r.calls ELSE <<>>]
     /\ CASE r.kind = "ok" ->
               /\ rsPos' = r.pos
               /\ UNCHANGED <<rsPc, rsErr>>
          [] r.kind = "err" ->
               /\ rsPc' = "failed"
               /\ rsErr' = r.msg
               /\ UNCHANGED rsPos
          [] r.kind = "panic" ->
               /\ rsPc' = "panicked"
               /\ UNCHANGED <<rsPos, rsErr>>
  /\ UNCHANGED <<rsBuf, rsRecs, notSet>>

\* The loop ends at the end of the stream and the caller returns Ok(()).
RsFinish ==
  /\ rsPc = "reading"
  /\ AtEnd(rsBuf, rsPos)
  /\ rsPc' = "done"
  /\ rsLast' = [op |-> "finish", before |-> rsPos]
  /\ UNCHANGED <<rsBuf, rsPos, rsErr, rsRecs, notSet>>

SettingsNext == RsReadSetting \/ RsFinish

InitSettings == SettingsInit /\ IdleBut("settings")

SpecSettings == InitSettings /\ [][SettingsNext]_vars

\* The offset in the stream of the end of the k-th setting as written.
SettingOffset(k) == 4 + Len(EncodeRecs(SubSeq(rsRecs, 1, k)))

\* The setting as written that starts where the last step started.
SettingMet ==
  rsRecs[CHOOSE i \in 1..Len(rsRecs) : SettingOffset(i - 1) = rsLast.before]

\* C10: a setting whose key is a recognised code does not stop the reader
\* (it is consumed to its end and the loop goes on, unless the stream ends
\* inside it, which is an io error), and a setting whose key is not a
\* recognised code makes the reader fail with an error.
C10_TypedSkip ==
  (rsLast.op = "setting" /\ rsLast.before + 4 <= Len(rsBuf)) =>
    IF IsDatabaseBlockId(SettingMet.tag)
    THEN IF rsLast.before + 4 + Len(SettingMet.payload) <= Len(rsBuf)
         THEN /\ rsPc = "reading"
              /\ rsPos = rsLast.before + 4 + Len(SettingMet.payload)
         ELSE rsPc = "failed" /\ rsErr = "io"
    ELSE rsPc = "failed" /\ rsErr = "unknown block id in read_setting"

\* C16: when a ThemeKey record (day u64, night u64, nightMode u32) has been
\* read, nightMode is true exactly when the u32 is 1 and the theme reader
\* is called with the night key if nightMode is true and with the day key
\* if not.
C16_ThemeKey ==
  (rsLast.op = "setting" /\ rsPc = "reading"
     /\ SettingMet.tag = <<0, ThemeKey>>) =>
    LET p == SettingMet.payload
        night_mode == SubSeq(p, 17, 20) = <<0, 0, 0, 1>>
        key == IF night_mode THEN SubSeq(p, 9, 16) ELSE SubSeq(p, 1, 8)
    IN /\ Len(rsLast.calls) = 1
       /\ rsLast.calls[1].reader = "theme"
       /\ BeBytes(rsLast.calls[1].key) = key

(***************************************************************************)
(* The tagged-record loops with their scheduling: a loop that can take a   *)
(* step takes it (the program runs on one thread and nothing blocks).      *)
(***************************************************************************)
\* The map records of the streams the loops are run on: two whole ones,
\* UserMap and an unknown tag.
LoopMapRecs ==
  {MapRec(<<0, t>>, MapPayload(t)) : t \in {Draft, UserSettings, UserMap, 23}}

\* The settings of the streams the loops are run on: two read_setting has
\* an arm for, one it has none for, and an unknown block id.
LoopSettingRecs ==
  {MapRec(<<0, b>>, SettingPayload(b)) : b \in {AutoStart, RecentStickers, 1, 16}}

InitLoops ==
  \E recs \in SeqsUpTo(LoopMapRecs, MaxLoopRecs)
               \cup SeqsUpTo(LoopSettingRecs, MaxLoopRecs),
     cut \in {0, 3} :
    /\ cut <= Len(EncodeRecs(recs))
    /\ \/ /\ recs \in SeqsUpTo(LoopMapRecs, MaxLoopRecs)
          /\ mRecs = recs
          /\ mBuf = MapStream(recs, cut)
          /\ mPos = 4
          /\ mPc = "reading"
          /\ mErr = ""
          /\ mAccount = [local_key |-> 1, settings |-> FileKeyDefault]
          /\ mLast = NoOp
          /\ IdleBut("map")
       \/ /\ recs \in SeqsUpTo(LoopSettingRecs, MaxLoopRecs)
          /\ rsRecs = recs
          /\ rsBuf = MapStream(recs, cut)
          /\ rsPos = 4
          /\ rsPc = "reading"
          /\ rsErr = ""
          /\ rsLast = NoOp
          /\ IdleBut("settings")

LoopsNext == MapNext \/ SettingsNext

SpecLoops ==
  InitLoops /\ [][LoopsNext]_vars /\ WF_vars(MapNext) /\ WF_vars(SettingsNext)

\* The position of a loop's stream is within [4, buffer length]; an
\* iteration that did not fail advanced by at least the four bytes of the
\* tag; at the end of the buffer the loop can only exit, and it has exited
\* only there.
LoopsSafe ==
  /\ mPc # "idle" => mPos \in 4..Len(mBuf)
  /\ rsPc # "idle" => rsPos \in 4..Len(rsBuf)
  /\ (mLast.op = "record" /\ mPc = "reading") => mPos >= mLast.before + 4
  /\ (rsLast.op = "setting" /\ rsPc = "reading") => rsPos >= rsLast.before + 4
  /\ mPc = "done" => mPos = Len(mBuf)
  /\ rsPc = "done" => rsPos = Len(rsBuf)
  /\ (mPc = "reading" /\ mPos = Len(mBuf)) =>
       ENABLED MFinish /\ ~ENABLED MReadRecord
  /\ (rsPc = "reading" /\ rsPos = Len(rsBuf)) =>
       ENABLED RsFinish /\ ~ENABLED RsReadSetting

\* C20: the loop of read_map and the settings loop keep the position
\* within [4, buffer length], advance it by at least 4 in every iteration
\* that does not fail, exit exactly at the end of the buffer, and always
\* come to an end (done, failed or panicked).
C20_LoopsTerminate ==
  /\ []LoopsSafe
  /\ <>(mPc \in {"done", "failed"} \/ rsPc \in {"done", "failed", "panicked"})

\* The settings loop has exited at the end of a buffer of the most records.
C20_Witness ==
  /\ rsPc = "done"
  /\ Len(rsRecs) = MaxLoopRecs
  /\ rsPos = Len(rsBuf)
  /\ rsPos >= 4 + 8 * MaxLoopRecs

(***************************************************************************)
(* FileKey: a u64 held as four 16-bit limbs, most significant first, and   *)
(* text held as the sequence of its bytes.                                 *)
(***************************************************************************)
\* "data", c_data_file()
DataFile == <<100, 97, 116, 97>>

\* compose_data_string(data_name, index) for the indexes 0..8: the name
\* without '#', then "#<index + 1>" if index > 0.
ComposeDataString(data_name, index) ==
  LET result == SelectSeq(data_name, LAMBDA c : c # 35) IN
  IF index > 0 THEN result \o <<35, 48 + index + 1>> ELSE result

\* FileKey::compute: the first eight bytes of the MD5 of the name, as a
\* little-endian u64.
FileKeyCompute(data_name) ==
  LET hash == Md5(data_name) IN
  <<hash[8] * 256 + hash[7], hash[6] * 256 + hash[5],
    hash[4] * 256 + hash[3], hash[2] * 256 + hash[1]>>

\* val & 0x0F
LowNibble(val) == val[4] % 16

\* val >>= 4
ShiftRight4(val) ==
  <<val[1] \div 16,
    (val[1] % 16) * 4096 + val[2] \div 16,
    (val[2] % 16) * 4096 + val[3] \div 16,
    (val[3] % 16) * 4096 + val[4] \div 16>>

\* The character pushed for the nibble v, with b'a' for b'A'.
NibbleChar_Lower(v) == IF v < 10 THEN 48 + v ELSE 97 + (v - 10)

\* if v < 0x0A { b'0' + v } else { b'A' + (v - 0x0A) }
NibbleChar(v) == IF v < 10 THEN 48 + v ELSE 65 + (v - 10)

RECURSIVE ToFilePartLoop(_, _, _)
\* The body of `for _ in 0..16` of to_file_part, n rounds to go.
ToFilePartLoop(val, result, n) ==
  IF n = 0 THEN result
  ELSE ToFilePartLoop(ShiftRight4(val),
                      Append(result, NibbleChar(LowNibble(val))), n - 1)

\* FileKey::to_file_part
ToFilePart(key) == ToFilePartLoop(key, <<>>, 16)

\* The limbs a key is made of in the model: 0, 1, 9, 0xA, 0xF0, 0xFFFF and
\* the limbs of 0xDEADBEEFCAFEBABE.
KeyLimbs == {0, 1, 9, 10, 240, 65535, 57005, 48879, 51966, 47806}

KeyInit ==
  /\ kKey \in {<<a, b, c, d>> : a \in {0, 57005, 65535}, b \in {0, 9, 48879},
                                c \in {1, 240, 51966}, d \in KeyLimbs}
  /\ kPart = <<>>

\* FileKey::compute(&compose_data_string("data", index))
KCompute ==
  /\ kPart = <<>>
  /\ \E index \in 0..2 :
       kKey' = FileKeyCompute(ComposeDataString(DataFile, index))
  /\ UNCHANGED <<kPart, notKey>>

\* key.to_file_part()
KToFilePart ==
  /\ kPart = <<>>
  /\ kPart' = ToFilePart(kKey)
  /\ UNCHANGED <<kKey, notKey>>

KeyNext == KCompute \/ KToFilePart

InitKey == KeyInit /\ IdleBut("key")

SpecKey == InitKey /\ [][KeyNext]_vars

\* The value of a character as a hexadecimal digit, 16 if it is none.
HexValue(c) ==
  IF c \in 48..57 THEN c - 48 ELSE IF c \in 65..70 THEN c - 55 ELSE 16

\* The limb whose nibbles, least significant first, are the four
\* characters of s from the i-th on.
LimbOfChars(s, i) ==
  HexValue(s[i]) + 16 * HexValue(s[i + 1]) + 256 * HexValue(s[i + 2])
    + 4096 * HexValue(s[i + 3])

\* C18: to_file_part returns 16 characters, each one of '0'..'9' and
\* 'A'..'F'; the i-th (from 0) is the digit of nibble i of the key counted
\* from the least significant nibble, and reading the 16 characters back as
\* nibbles in that order gives the key (so two keys with one rendering are
\* one key).
C18_ToFilePart ==
  kPart # <<>> =>
    /\ Len(kPart) = 16
    /\ \A i \in 1..16 : kPart[i] \in (48..57) \cup (65..70)
    /\ \A i \in 0..15 :
         HexValue(kPart[i + 1]) =
           (kKey[4 - (i \div 4)] \div
              (CASE i % 4 = 0 -> 1 [] i % 4 = 1 -> 16 [] i % 4 = 2 -> 256
                 [] OTHER -> 4096)) % 16
    /\ kKey = <<LimbOfChars(kPart, 13), LimbOfChars(kPart, 9),
                LimbOfChars(kPart, 5), LimbOfChars(kPart, 1)>>

\* The rendering of 0xDEADBEEFCAFEBABE: "EBABEFACFEEBDAED".
C18_Witness ==
  /\ kKey = <<57005, 48879, 51966, 47806>>
  /\ kPart = <<69, 66, 65, 66, 69, 70, 65, 67, 70, 69, 69, 66, 68, 65, 69, 68>>

(***************************************************************************)
(* The boot: main, start_local_storage, start_modern and the accounts.     *)
(*                                                                         *)
(* Text and path components are sequences of bytes and a path is the       *)
(* sequence of its components.  PBKDF2 and SHA-512 (ring) are not code of  *)
(* this repository: a derived key is a number that depends on the salt and *)
(* the passcode and on which of the two derivations made it.  The 256      *)
(* bytes of a key's material name the key by their first byte.             *)
(***************************************************************************)
\* the value of $HOME: /home
TxtHome == <<104, 111, 109, 101>>

\* a value of $XDG_DATA_HOME: /xdg
TxtXdg == <<120, 100, 103>>

\* the directory of the executable: /opt
TxtOpt == <<111, 112, 116>>

\* ".local"
TxtDotLocal == <<46, 108, 111, 99, 97, 108>>

\* "share"
TxtShare == <<115, 104, 97, 114, 101>>

\* "TelegramDesktop"
TxtTelegramDesktop == <<84, 101, 108, 101, 103, 114, 97, 109, 68, 101, 115, 107, 116, 111, 112>>

\* ".TelegramDesktop"
TxtDotTelegramDesktop == <<46, 84, 101, 108, 101, 103, 114, 97, 109, 68, 101, 115, 107, 116, 111, 112>>

\* src/telegram-nonsense/tdesktop/out/Debug/bin, held as one component
TxtDebugBin == <<98, 105, 110>>

\* "tdata"
TxtTdata == <<116, 100, 97, 116, 97>>

\* "settings"
TxtSettings == <<115, 101, 116, 116, 105, 110, 103, 115>>

\* "map"
TxtMap == <<109, 97, 112>>

\* "key_"
TxtKeyPrefix == <<107, 101, 121, 95>>

\* const MAX_ACCOUNTS
MAX_ACCOUNTS == 3

\* const LOCAL_ENCRYPT_SALT_SIZE
LOCAL_ENCRYPT_SALT_SIZE == 32

\* MtpAuthKey::K_SIZE
K_SIZE == 256

\* dirs::data_local_dir(): $XDG_DATA_HOME, or $HOME/.local/share.
DataLocalDir(env) ==
  IF env.xdg THEN <<TxtXdg>> ELSE <<TxtHome, TxtDotLocal, TxtShare>>

\* app_data_path(), in a release build and in a debug build.
AppDataPath(env) ==
  IF env.build = "release"
  THEN IF env.old THEN <<TxtHome, TxtDotTelegramDesktop>>
       ELSE DataLocalDir(env) \o <<TxtTelegramDesktop>>
  ELSE IF env.exe_home THEN <<TxtHome, TxtDebugBin>> ELSE <<TxtOpt>>

\* WORKING_DIR.get_or_init(app_data_path) on the cell (<<>> while unset).
GetOrInit(cell, env) == IF cell = <<>> THEN <<AppDataPath(env)>> ELSE cell

\* base_global_path()
BaseGlobalPath(env) ==
  <<TxtHome>>
    \o (IF env.build = "debug" THEN <<TxtDebugBin>>
        ELSE <<TxtDotLocal, TxtShare, TxtTelegramDesktop>>)
    \o <<TxtTdata>>

\* compute_key_name(data_name)
ComputeKeyName(data_name) == TxtKeyPrefix \o data_name

\* The path FileReadDescriptor::open opens: base_path.join(name), then "s".
ModernPath(name, base_path) == Append(base_path, name \o <<115>>)

\* MtpAuthKey::create_legacy_local
CreateLegacyLocal(passcode, salt) ==
  16 + ((SumBytes(salt, 1) + Len(passcode)) % 16)

\* MtpAuthKey::create_local
CreateLocal(passcode, salt) ==
  32 + ((SumBytes(salt, 1) + Len(passcode)) % 16)

\* Rc<MtpAuthKey>::read_from: read_exact of K_SIZE bytes.
AuthKeyReadFrom(buf, pos) ==
  IF pos + K_SIZE > Len(buf) THEN Fail ELSE Ok(pos + K_SIZE, buf[pos + 1])

\* The material of the key k as a writer stores it.
KeyBytes(k) == [i \in 1..K_SIZE |-> (k * i) % 256]

\* A Bytes field as a writer stores it.
BytesField(b) ==
  Bind(b, LAMBDA v : BeBytes(<<Len(v) \div 65536, Len(v) % 65536>>) \o v)

\* The plaintext of an encrypted block: the declared length, the data, and
\* zeros up to the next multiple of 16.
PadPlain(data) ==
  Bind(data, LAMBDA d :
    LET n == 4 + Len(d)
        padded == n + ((16 - (n % 16)) % 16)
    IN U32ToLeBytes(<<0, n>>) \o d \o [i \in 1..(padded - n) |-> 0])

\* The encrypted block a writer makes of data under a key.
Sealed(data, key) ==
  Bind(<<PadPlain(data), key>>, LAMBDA v : EncryptLocal(v[1], v[2]))

\* The file a writer makes of a body (version 7).
FileOf(body) ==
  Bind(body, LAMBDA b : [exists |-> TRUE, bytes |-> Pack(b, <<0, 7>>)])

NoFile == [exists |-> FALSE, bytes |-> <<>>]

Salt32 == [i \in 1..LOCAL_ENCRYPT_SALT_SIZE |-> i]

\* The local key the profile of the model was written with.
ProfileKey == 77

\* Two settings read_setting has an arm for.
GoodSettings ==
  EncodeRecs(<<MapRec(<<0, AutoStart>>, SettingPayload(AutoStart)),
               MapRec(<<0, ThemeKey>>, SettingPayload(ThemeKey))>>)


\* The settings file `settingss` of a profile, by how it was written.
SettingsFile(v) ==
  LET key == CreateLegacyLocal(<<>>, Salt32)
      User == MapRec(<<0, 1>>, SettingPayload(1))
      NoId == MapRec(<<0, 16>>, SettingPayload(16))
      good == BytesField(Salt32) \o BytesField(Sealed(GoodSettings, key))
  IN
  CASE v = "ok" -> FileOf(good)
    [] v = "three" -> FileOf(good \o BytesField(<<1, 2, 3>>))
    [] v = "trailing" -> FileOf(good \o <<0>>)
    [] v = "one" -> FileOf(BytesField(Salt32))
    [] v = "salt31" ->
         FileOf(BytesField(SubSeq(Salt32, 1, 31))
                  \o BytesField(Sealed(GoodSettings, key)))
    [] v = "salt33" ->
         FileOf(BytesField(Salt32 \o <<33>>)
                  \o BytesField(Sealed(GoodSettings, key)))
    [] v = "missing" -> NoFile
    [] v = "short" ->
         [exists |-> TRUE, bytes |-> TDF_MAGIC \o <<7, 0, 0, 0>> \o <<1, 2, 3>>]
    [] v = "badsig" ->
         [exists |-> TRUE,
          bytes |-> [FileOf(good).bytes EXCEPT ![9] = FlipBitOf(@, 0)]]
    [] v = "badsize" ->
         FileOf(BytesField(Salt32) \o BytesField([i \in 1..17 |-> i]))
    [] v = "wrongkey" ->
         FileOf(BytesField(Salt32)
                  \o BytesField(Sealed(GoodSettings, key + 1)))
    [] v = "todo" ->
         FileOf(BytesField(Salt32)
                  \o BytesField(Sealed(GoodSettings \o EncodeRecs(<<User>>), key)))
    [] v = "unknown" ->
         FileOf(BytesField(Salt32)
                  \o BytesField(Sealed(GoodSettings \o EncodeRecs(<<NoId>>), key)))
    [] v = "cut" ->
         FileOf(BytesField(Salt32)
                  \o BytesField(Sealed(SubSeq(GoodSettings, 1, 6), key)))

SettingsVariants ==
  {"ok", "three", "trailing", "one", "salt31", "salt33", "missing", "short",
   "badsig", "badsize", "wrongkey", "todo", "unknown", "cut"}

RECURSIVE InfoInts(_)
\* The i32 values of the info block as a writer stores them.
InfoInts(ints) ==
  IF ints = <<>> THEN <<>> ELSE BeBytes(Head(ints)) \o InfoInts(Tail(ints))

\* The key file `key_datas` of a profile with the account count and the
\* indexes of its info block, by how it was written.
KeyFile(v, count, indexes) ==
  LET pass == CreateLocal(<<>>, Salt32)
      key == BytesField(Sealed(KeyBytes(ProfileKey), pass))
      info == BytesField(Sealed(InfoInts(<<count>> \o indexes), ProfileKey))
  IN
  CASE v = "ok" -> FileOf(BytesField(Salt32) \o key \o info)
    [] v = "two" -> FileOf(BytesField(Salt32) \o key)
    [] v = "trailing" -> FileOf(BytesField(Salt32) \o key \o info \o <<0>>)
    [] v = "salt31" -> FileOf(BytesField(SubSeq(Salt32, 1, 31)) \o key \o info)
    [] v = "wrongpass" ->
         FileOf(BytesField(Salt32)
                  \o BytesField(Sealed(KeyBytes(ProfileKey), pass + 1)) \o info)
    [] v = "shortkey" ->
         FileOf(BytesField(Salt32)
                  \o BytesField(Sealed(SubSeq(KeyBytes(ProfileKey), 1, K_SIZE - 1),
                                       pass))
                  \o info)
    [] v = "longkey" ->
         FileOf(BytesField(Salt32)
                  \o BytesField(Sealed(KeyBytes(ProfileKey) \o <<0>>, pass))
                  \o info)
    [] v = "badinfo" ->
         FileOf(BytesField(Salt32) \o key
                  \o BytesField(Sealed(InfoInts(<<count>> \o indexes),
                                       ProfileKey + 1)))
    [] v = "missing" -> NoFile

KeyVariants ==
  {"ok", "two", "trailing", "salt31", "wrongpass", "shortkey", "longkey",
   "badinfo", "missing"}

\* The settings key the map of account i names.
AccountSettingsKey(i) == <<57005, 48879, 51966, 47806 + i>>

\* The file `maps` of an account, by how it was written.
AccountMapFile(v, i) ==
  LET DraftRec == MapRec(<<0, Draft>>, MapPayload(Draft))
      KeyRec == MapRec(<<0, UserSettings>>, BeBytes(AccountSettingsKey(i)))
      UserMapRec == MapRec(<<0, UserMap>>, <<>>)
      body(recs) == BytesField(Salt32) \o BytesField(<<>>)
                      \o BytesField(Sealed(EncodeRecs(recs), ProfileKey))
  IN
  CASE v \in {"ok", "badsettings", "nosettings"} ->
         FileOf(body(<<DraftRec, KeyRec>>))
    [] v = "nokey" -> FileOf(body(<<DraftRec>>))
    [] v = "usermap" -> FileOf(body(<<KeyRec, UserMapRec>>))
    [] v = "maptrailing" -> FileOf(body(<<DraftRec, KeyRec>>) \o <<0>>)
    [] v = "nomap" -> NoFile

\* The settings file of an account under the name of the key, by how the
\* account was written; the file of the key 0 is that of an account whose
\* map names no settings key.
AccountSettingsFile(v, i, key) ==
  LET NoId == MapRec(<<0, 16>>, SettingPayload(16)) IN
  CASE v \in {"ok", "usermap", "maptrailing"} /\ key = AccountSettingsKey(i) ->
         FileOf(BytesField(Sealed(GoodSettings, ProfileKey)))
    [] v = "badsettings" /\ key = AccountSettingsKey(i) ->
         FileOf(BytesField(Sealed(GoodSettings \o EncodeRecs(<<NoId>>),
                                  ProfileKey)))
    [] v = "nokey" /\ key = FileKeyDefault ->
         FileOf(BytesField(Sealed(GoodSettings, ProfileKey)))
    [] OTHER -> NoFile

AccountVariants ==
  {"ok", "nokey", "usermap", "maptrailing", "nomap", "badsettings",
   "nosettings"}

\* The directory of account i under the base path.
AccountDir(i) == ToFilePart(FileKeyCompute(ComposeDataString(DataFile, i)))

\* The file at a path of the file system of a scenario: the profile lies
\* under every root the program can compute.
FsFile(scn, path) ==
  LET n == Len(path)
      name == path[n]
      dir == path[n - 1]
  IN
  IF dir = TxtTdata
  THEN IF name = TxtSettings \o <<115>> THEN SettingsFile(scn.settings)
       ELSE IF name = ComputeKeyName(DataFile) \o <<115>>
       THEN KeyFile(scn.key, scn.count, scn.indexes)
       ELSE NoFile
  ELSE IF \E i \in 0..(MAX_ACCOUNTS - 1) : dir = AccountDir(i)
  THEN LET i == CHOOSE i \in 0..(MAX_ACCOUNTS - 1) : dir = AccountDir(i) IN
       IF name = TxtMap \o <<115>> THEN AccountMapFile(scn.acct[i], i)
       ELSE IF \E key \in {AccountSettingsKey(i), FileKeyDefault} :
                 name = ToFilePart(key) \o <<115>>
       THEN AccountSettingsFile(
              scn.acct[i], i,
              CHOOSE key \in {AccountSettingsKey(i), FileKeyDefault} :
                name = ToFilePart(key) \o <<115>>)
       ELSE NoFile
  ELSE NoFile

\* One step of the boot as the log keeps it: what ran, whether it succeeded,
\* the path of a file it opened and the account it worked for.
Ev(ev, ok, path, acct) == [ev |-> ev, ok |-> ok, path |-> path, acct |-> acct]

OkRes == [kind |-> "ok", msg |-> ""]

\* What a Result or a panic leaves of a step: its kind and its message.
Outcome(r) == [kind |-> r.kind, msg |-> IF r.kind = "err" THEN r.msg ELSE ""]

\* FileReadDescriptor::open of the file at a path of the scenario.
OpenAt(scn, path) == Bind(FsFile(scn, path), LAMBDA f : FileOpen(f))

\* <[u8; 32]>::try_from(salt) with `>=` for the equality of the lengths.
SaltTryInto_AtLeast(salt) == Len(salt) >= LOCAL_ENCRYPT_SALT_SIZE

\* <[u8; 32]>::try_from(salt): the slice has the length of the array.
SaltTryInto(salt) == Len(salt) = LOCAL_ENCRYPT_SALT_SIZE

\* start_local_storage up to its loop: the stream of the settings, or the
\* failure that ended it, with the steps that ran.
StartLocalStorage(scn, cell) ==
  Bind(GetOrInit(cell, scn.env), LAMBDA wd :
  Bind(ModernPath(TxtSettings, Append(wd[1], TxtTdata)), LAMBDA path :
  Bind(OpenAt(scn, path), LAMBDA settings_data :
  LET Stopped(r, log) == [res |-> Outcome(r), log |-> log, cell |-> wd,
                          stream |-> [buf |-> <<>>, pos |-> 0]]
      e0 == IF cell = <<>> THEN <<Ev("app_data_path", TRUE, wd[1], <<>>)>>
            ELSE <<>>
      e1 == Append(e0, Ev("open", settings_data.kind = "ok", path, <<>>))
  IN
  IF settings_data.kind # "ok" THEN Stopped(settings_data, e1) ELSE
  Bind(BytesReadFrom(settings_data.data, settings_data.pos), LAMBDA salt :
  LET e2 == Append(e1, Ev("read_bytes", salt.ok, <<>>, <<>>)) IN
  IF ~salt.ok THEN Stopped(Err("io"), e2) ELSE
  Bind(BytesReadFrom(settings_data.data, salt.pos),
       LAMBDA settings_encrypted :
  LET e3 == Append(e2, Ev("read_bytes", settings_encrypted.ok, <<>>, <<>>)) IN
  IF ~settings_encrypted.ok THEN Stopped(Err("io"), e3) ELSE
  Bind(ShouldBeDone(settings_data.data, settings_encrypted.pos), LAMBDA done :
  LET e4 == Append(e3, Ev("should_be_done", done = "ok", <<>>, <<>>)) IN
  IF done # "ok" THEN Stopped(Err(done), e4) ELSE
  LET e5 == Append(e4, Ev("salt", SaltTryInto(salt.val), <<>>, <<>>)) IN
  IF ~SaltTryInto(salt.val) THEN Stopped(Err("bad salt size"), e5) ELSE
  Bind(CreateLegacyLocal(<<>>, salt.val), LAMBDA settings_key :
  Bind(DecryptLocal(settings_encrypted.val, settings_key), LAMBDA settings :
  LET e7 == e5 \o <<Ev("create_legacy_local", TRUE, <<>>, <<>>),
                    Ev("decrypt_local", settings.kind = "ok", <<>>, <<>>)>>
  IN
  IF settings.kind # "ok" THEN Stopped(settings, e7)
  ELSE [res |-> OkRes, log |-> e7, cell |-> wd,
        stream |-> [buf |-> settings.data, pos |-> settings.pos]]))))))))

\* i32 held as limbs: count <= 0 || count > MAX_ACCOUNTS
BadAccountsCount(count) ==
  \/ count[1] >= 32768
  \/ count = <<0, 0>>
  \/ count[1] > 0
  \/ count[2] > MAX_ACCOUNTS

\* The index test without the set of the indexes tried.
IndexAccepted_NoTried(index, tried) ==
  /\ index[1] = 0
  /\ index[2] < MAX_ACCOUNTS

\* index >= 0 && index < MAX_ACCOUNTS && tried.insert(index)
IndexAccepted(index, tried) ==
  /\ index[1] = 0
  /\ index[2] < MAX_ACCOUNTS
  /\ index \notin tried

\* What `tried` holds after the test: insert runs only for an index in range.
TriedAfter(index, tried) ==
  IF index[1] = 0 /\ index[2] < MAX_ACCOUNTS THEN tried \cup {index} ELSE tried

\* start_modern up to its loop: the stream of the info block behind the
\* count, the local key and the count, or the failure that ended it.
StartModern(scn, passcode) ==
  Bind(ModernPath(ComputeKeyName(DataFile), BaseGlobalPath(scn.env)),
       LAMBDA path :
  Bind(OpenAt(scn, path), LAMBDA key_data :
  LET Stopped(r, log) == [res |-> Outcome(r), log |-> log, local_key |-> 0,
                          count |-> 0, stream |-> [buf |-> <<>>, pos |-> 0]]
      e1 == <<Ev("open", key_data.kind = "ok", path, <<>>)>>
  IN
  IF key_data.kind # "ok" THEN Stopped(key_data, e1) ELSE
  Bind(BytesReadFrom(key_data.data, key_data.pos), LAMBDA salt :
  LET e2 == Append(e1, Ev("read_bytes", salt.ok, <<>>, <<>>)) IN
  IF ~salt.ok THEN Stopped(Err("io"), e2) ELSE
  Bind(BytesReadFrom(key_data.data, salt.pos), LAMBDA key_encrypted :
  LET e3 == Append(e2, Ev("read_bytes", key_encrypted.ok, <<>>, <<>>)) IN
  IF ~key_encrypted.ok THEN Stopped(Err("io"), e3) ELSE
  Bind(BytesReadFrom(key_data.data, key_encrypted.pos),
       LAMBDA info_encrypted :
  LET e4 == Append(e3, Ev("read_bytes", info_encrypted.ok, <<>>, <<>>)) IN
  IF ~info_encrypted.ok THEN Stopped(Err("io"), e4) ELSE
  Bind(ShouldBeDone(key_data.data, info_encrypted.pos), LAMBDA done :
  LET e5 == Append(e4, Ev("should_be_done", done = "ok", <<>>, <<>>)) IN
  IF done # "ok" THEN Stopped(Err("reading key data"), e5) ELSE
  LET e6 == Append(e5, Ev("salt", SaltTryInto(salt.val), <<>>, <<>>)) IN
  IF ~SaltTryInto(salt.val) THEN Stopped(Err("bad salt in info file"), e6) ELSE
  Bind(CreateLocal(passcode, salt.val), LAMBDA passcode_key :
  Bind(DecryptLocal(key_encrypted.val, passcode_key), LAMBDA key_inner_data :
  LET e8 == e6 \o <<Ev("create_local", TRUE, <<>>, <<>>),
                    Ev("decrypt_local", key_inner_data.kind = "ok",
                       <<>>, <<>>)>>
  IN
  IF key_inner_data.kind # "ok" THEN Stopped(key_inner_data, e8) ELSE
  Bind(AuthKeyReadFrom(key_inner_data.data, key_inner_data.pos),
       LAMBDA local_key :
  LET e9 == Append(e8, Ev("from_reader", local_key.ok, <<>>, <<>>)) IN
  IF ~local_key.ok THEN Stopped(Err("io"), e9) ELSE
  Bind(ShouldBeDone(key_inner_data.data, local_key.pos), LAMBDA inner_done :
  LET e10 == Append(e9, Ev("should_be_done", inner_done = "ok", <<>>, <<>>))
  IN
  IF inner_done # "ok" THEN Stopped(Err("reading key inner data"), e10) ELSE
  Bind(DecryptLocal(info_encrypted.val, local_key.val), LAMBDA info :
  LET e11 == Append(e10, Ev("decrypt_info", info.kind = "ok", <<>>, <<>>)) IN
  IF info.kind # "ok" THEN Stopped(info, e11) ELSE
  Bind(ReadInt(4, info.data, info.pos), LAMBDA count :
  LET e12 == Append(e11, Ev("count",
                            count.ok /\ ~BadAccountsCount(count.val),
                            <<>>, <<>>))
  IN
  IF ~count.ok THEN Stopped(Err("io"), e12)
  ELSE IF BadAccountsCount(count.val)
  THEN Stopped(Err("bad accounts count"), e12)
  ELSE [res |-> OkRes, log |-> e12, local_key |-> local_key.val,
        count |-> count.val[2],
        stream |-> [buf |-> info.data, pos |-> count.pos]]))))))))))))

\* MainAccount::new with StorageAccount::new: the blank key, the default
\* keys and the directory of the account under BASE_GLOBAL_PATH.
MainAccountNew(data_name, index, env) ==
  Bind(FileKeyCompute(ComposeDataString(data_name, index)),
       LAMBDA data_name_key :
    [index |-> index,
     local_key |-> 0,
     data_name_key |-> data_name_key,
     base_path |-> Append(BaseGlobalPath(env), ToFilePart(data_name_key)),
     settings |-> FileKeyDefault])

RECURSIVE ReadMapLoop(_, _, _, _, _)
\* The loop of read_map from a position of the stream.
ReadMapLoop(buf, pos, settings, log, index) ==
  IF AtEnd(buf, pos)
  THEN [res |-> OkRes, settings |-> settings, log |-> log]
  ELSE Bind(ReadMapRecord(buf, pos, settings), LAMBDA r :
       IF r.kind = "ok"
       THEN Bind(Append(log, Ev("map_record", TRUE, <<>>, <<index>>)),
                 LAMBDA l : ReadMapLoop(buf, r.pos, r.settings, l, index))
       ELSE [res |-> Outcome(r), settings |-> settings,
             log |-> Append(log, Ev("map_record", FALSE, <<>>, <<index>>))])

\* StorageAccount::read_map
ReadMap(account, scn) ==
  Bind(ModernPath(TxtMap, account.base_path), LAMBDA path :
  Bind(OpenAt(scn, path), LAMBDA map_data :
  LET a == <<account.index>>
      Stopped(r, log) ==
        [res |-> Outcome(r), account |-> account,
         log |-> Append(log, Ev("read_map", FALSE, <<>>, a))]
      e1 == <<Ev("open", map_data.kind = "ok", path, a)>>
  IN
  IF map_data.kind # "ok" THEN Stopped(map_data, e1) ELSE
  Bind(BytesReadFrom(map_data.data, map_data.pos), LAMBDA legacy_salt :
  LET e2 == Append(e1, Ev("read_bytes", legacy_salt.ok, <<>>, a)) IN
  IF ~legacy_salt.ok THEN Stopped(Err("read legacy salt"), e2) ELSE
  Bind(BytesReadFrom(map_data.data, legacy_salt.pos),
       LAMBDA legacy_key_encrypted :
  LET e3 == Append(e2, Ev("read_bytes", legacy_key_encrypted.ok, <<>>, a)) IN
  IF ~legacy_key_encrypted.ok THEN Stopped(Err("read legacy key"), e3) ELSE
  Bind(BytesReadFrom(map_data.data, legacy_key_encrypted.pos),
       LAMBDA map_encrypted :
  LET e4 == Append(e3, Ev("read_bytes", map_encrypted.ok, <<>>, a)) IN
  IF ~map_encrypted.ok THEN Stopped(Err("read encrypted map"), e4) ELSE
  Bind(ShouldBeDone(map_data.data, map_encrypted.pos), LAMBDA done :
  LET e5 == Append(e4, Ev("should_be_done", done = "ok", <<>>, a)) IN
  IF done # "ok" THEN Stopped(Err("reading map data"), e5) ELSE
  Bind(DecryptLocal(map_encrypted.val, account.local_key), LAMBDA map :
  Bind(Append(e5, Ev("decrypt_local", map.kind = "ok", <<>>, a)), LAMBDA e6 :
  IF map.kind # "ok" THEN Stopped(map, e6) ELSE
  Bind(ReadMapLoop(map.data, map.pos, account.settings, e6, account.index),
       LAMBDA l :
    [res |-> l.res,
     account |-> [account EXCEPT !.settings = l.settings],
     log |-> Append(l.log, Ev("read_map", l.res.kind = "ok", <<>>, a))])))))))))

\* Result::unwrap: an Err is a panic.
Unwrap(res) == IF res.kind = "ok" THEN res ELSE [kind |-> "panic", msg |-> ""]

\* StorageAccount::start with the Result of read_map dropped.
StorageAccountStart_Ignored(account, local_key, scn) ==
  Bind(ReadMap([account EXCEPT !.local_key = local_key], scn), LAMBDA m :
    [res |-> OkRes, account |-> m.account,
     log |-> <<Ev("start", TRUE, <<>>, <<account.index>>)>> \o m.log])

\* StorageAccount::start
StorageAccountStart(account, local_key, scn) ==
  Bind(ReadMap([account EXCEPT !.local_key = local_key], scn), LAMBDA m :
    [res |-> Unwrap(m.res), account |-> m.account,
     log |-> <<Ev("start", TRUE, <<>>, <<account.index>>)>> \o m.log])

\* MainAccount::prepare_to_start
PrepareToStart(account, local_key, scn) ==
  StorageAccountStart(account, local_key, scn)

RECURSIVE ReadSettingsLoop(_, _, _, _)
\* The loop of read_session_settings from a position of the stream.
ReadSettingsLoop(buf, pos, log, index) ==
  IF AtEnd(buf, pos) THEN [res |-> OkRes, log |-> log]
  ELSE Bind(ReadSetting(buf, pos), LAMBDA r :
       IF r.kind = "ok"
       THEN Bind(Append(log, Ev("read_setting", TRUE, <<>>, <<index>>)),
                 LAMBDA l : ReadSettingsLoop(buf, r.pos, l, index))
       ELSE [res |-> Outcome(r),
             log |-> Append(log, Ev("read_setting", FALSE, <<>>, <<index>>))])

\* StorageAccount::read_session_settings
ReadSessionSettings(account, scn) ==
  Bind(ModernPath(ToFilePart(account.settings), account.base_path),
       LAMBDA path :
  Bind(OpenAt(scn, path), LAMBDA foo :
  LET a == <<account.index>>
      Stopped(r, log) ==
        [res |-> Outcome(r),
         log |-> Append(log, Ev("read_session_settings", FALSE, <<>>, a))]
      e1 == <<Ev("open", foo.kind = "ok", path, a)>>
  IN
  IF foo.kind # "ok" THEN Stopped(foo, e1) ELSE
  Bind(BytesReadFrom(foo.data, foo.pos), LAMBDA encrypted_settings :
  LET e2 == Append(e1, Ev("read_bytes", encrypted_settings.ok, <<>>, a)) IN
  IF ~encrypted_settings.ok THEN Stopped(Err("io"), e2) ELSE
  Bind(DecryptLocal(encrypted_settings.val, account.local_key),
       LAMBDA stream :
  Bind(Append(e2, Ev("decrypt_local", stream.kind = "ok", <<>>, a)),
       LAMBDA e3 :
  IF stream.kind # "ok" THEN Stopped(stream, e3) ELSE
  Bind(ReadSettingsLoop(stream.data, stream.pos, e3, account.index),
       LAMBDA l :
    [res |-> l.res,
     log |-> Append(l.log, Ev("read_session_settings", l.res.kind = "ok",
                              <<>>, a))]))))))

\* main: the steps in the order it runs them.
MainSteps_Swapped == <<"modern", "local_storage">>

\* main: start_local_storage()?; start_modern(b"")?; Ok(())
MainSteps == <<"local_storage", "modern">>

\* The step of main behind a step that returned Ok, or "done" behind the last.
StepAfter(step) ==
  LET i == CHOOSE i \in 1..Len(MainSteps) : MainSteps[i] = step IN
  IF i = Len(MainSteps) THEN "done" ELSE MainSteps[i + 1]

\* The environments of a run: the build, whether $XDG_DATA_HOME is set,
\* whether the old profile ~/.TelegramDesktop exists, and whether the
\* executable of a debug build lies in the directory under $HOME.
EnvDefault == [build |-> "release", xdg |-> FALSE, old |-> FALSE,
               exe_home |-> FALSE]

Envs ==
  { EnvDefault,
    [EnvDefault EXCEPT !.xdg = TRUE],
    [EnvDefault EXCEPT !.old = TRUE],
    [EnvDefault EXCEPT !.build = "debug", !.exe_home = TRUE],
    [EnvDefault EXCEPT !.build = "debug"] }

\* The i32 values an info block is written with: the small ones, -1 and
\* 2^16 and 2^16 + 2, whose low halves are in range.
InfoCounts == {<<0, c>> : c \in 0..MaxInfoCount} \cup {<<65535, 65535>>, <<1, 2>>}

InfoIndexes == {<<0, i>> : i \in 0..MaxInfoIndex} \cup {<<65535, 65535>>, <<1, 0>>}

\* The indexes written behind a count: as many as the count says or one
\* less, and behind a count the boot refuses none or one.
InfoSeqs(c) ==
  IF BadAccountsCount(c) THEN {<<>>, <<<<0, 0>>>>}
  ELSE UNION {[1..n -> InfoIndexes] : n \in {c[2] - 1, c[2]}}

AllOk == [i \in 0..(MAX_ACCOUNTS - 1) |-> "ok"]

ScnDefault ==
  [env |-> EnvDefault, settings |-> "ok", key |-> "ok", count |-> <<0, 2>>,
   indexes |-> <<<<0, 1>>, <<0, 0>>>>, acct |-> AllOk]

\* The profiles and environments the boot is run against: one part of the
\* default profile varies at a time.
Scenarios ==
  {[ScnDefault EXCEPT !.settings = v] : v \in SettingsVariants}
    \cup {[ScnDefault EXCEPT !.key = v] : v \in KeyVariants}
    \cup {[ScnDefault EXCEPT !.env = e] : e \in Envs}
    \cup UNION {{[ScnDefault EXCEPT !.count = c, !.indexes = s] :
                    s \in InfoSeqs(c)} : c \in InfoCounts}
    \cup {[ScnDefault EXCEPT !.indexes = s, !.acct = [AllOk EXCEPT ![i] = v]] :
            s \in {<<<<0, 0>>, <<0, 1>>>>, <<<<0, 2>>, <<0, 1>>>>,
                   <<<<0, 1>>, <<0, 2>>>>},
            i \in 0..(MAX_ACCOUNTS - 1), v \in AccountVariants}

\* The process at the entry of main: WORKING_DIR is an empty OnceCell.
BootInit ==
  /\ bScn \in Scenarios
  /\ bPc = MainSteps[1]
  /\ bLog = <<>>
  /\ bRes = NoOutcome
  /\ bWd = <<>>
  /\ bStream = NoStream
  /\ bKey = 0
  /\ bLeft = 0
  /\ bTried = {}
  /\ bAccounts = {}
  /\ bCur = <<>>

\* An Err through `?` up to main, or a panic: the locals are dropped and the
\* process ends with the failure.
BootFails(res, log) ==
  /\ bPc' = "failed"
  /\ bRes' = res
  /\ bLog' = bLog \o log
  /\ bStream' = NoStream
  /\ bKey' = 0
  /\ bLeft' = 0
  /\ bTried' = {}
  /\ bAccounts' = {}
  /\ bCur' = <<>>

\* A step of main returned Ok(()): the next step, or Ok(()) from main.
BootReturns(step, log) ==
  /\ bPc' = StepAfter(step)
  /\ bRes' = IF StepAfter(step) = "done" THEN OkRes ELSE bRes
  /\ bLog' = bLog \o log
  /\ bStream' = NoStream
  /\ bKey' = 0
  /\ bLeft' = 0
  /\ bTried' = {}
  /\ bAccounts' = {}
  /\ bCur' = <<>>

\* start_local_storage from its entry to the loop over the settings.
BLocalStorage ==
  /\ bPc = "local_storage"
  /\ \E r \in {StartLocalStorage(bScn, bWd)} :
     /\ bWd' = r.cell
     /\ IF r.res.kind = "ok"
        THEN /\ bPc' = "settings"
             /\ bStream' = r.stream
             /\ bLog' = bLog \o r.log
             /\ UNCHANGED <<bRes, bKey, bLeft, bTried, bAccounts, bCur>>
        ELSE BootFails(r.res, r.log)
  /\ UNCHANGED <<bScn, notBoot>>

\* One pass of the loop of start_local_storage.
BReadSetting ==
  /\ bPc = "settings"
  /\ ~AtEnd(bStream.buf, bStream.pos)
  /\ \E r \in {ReadSetting(bStream.buf, bStream.pos)} :
     IF r.kind = "ok"
     THEN /\ bStream' = [bStream EXCEPT !.pos = r.pos]
          /\ bLog' = Append(bLog, Ev("read_setting", TRUE, <<>>, <<>>))
          /\ UNCHANGED <<bPc, bRes, bKey, bLeft, bTried, bAccounts, bCur>>
     ELSE BootFails(Outcome(r), <<Ev("read_setting", FALSE, <<>>, <<>>)>>)
  /\ UNCHANGED <<bScn, bWd, notBoot>>

\* The loop of start_local_storage ends and the function returns Ok(()).
BSettingsEnd ==
  /\ bPc = "settings"
  /\ AtEnd(bStream.buf, bStream.pos)
  /\ BootReturns("local_storage",
                 <<Ev("start_local_storage", TRUE, <<>>, <<>>)>>)
  /\ UNCHANGED <<bScn, bWd, notBoot>>

\* start_modern from its entry to the loop over the accounts.
BStartModern ==
  /\ bPc = "modern"
  /\ \E r \in {StartModern(bScn, <<>>)} :
     IF r.res.kind = "ok"
     THEN /\ bPc' = "accounts"
          /\ bStream' = r.stream
          /\ bKey' = r.local_key
          /\ bLeft' = r.count
          /\ bTried' = {}
          /\ bAccounts' = {}
          /\ bLog' = bLog \o r.log
          /\ UNCHANGED <<bRes, bCur>>
     ELSE BootFails(r.res, r.log)
  /\ UNCHANGED <<bScn, bWd, notBoot>>

\* One pass of `for _ in 0..count` up to MainAccount::new.
BIndex ==
  /\ bPc = "accounts"
  /\ bLeft > 0
  /\ \E index \in {ReadInt(4, bStream.buf, bStream.pos)} :
     IF ~index.ok
     THEN BootFails(Outcome(Err("io")), <<Ev("index", FALSE, <<>>, <<>>)>>)
     ELSE /\ bStream' = [bStream EXCEPT !.pos = index.pos]
          /\ bLeft' = bLeft - 1
          /\ bTried' = TriedAfter(index.val, bTried)
          /\ IF IndexAccepted(index.val, bTried)
             THEN /\ bCur' = <<MainAccountNew(DataFile, index.val[2], bScn.env)>>
                  /\ bPc' = "prepare"
                  /\ bLog' = bLog \o <<Ev("index", TRUE, <<>>, <<>>),
                                       Ev("new", TRUE, <<>>, <<index.val[2]>>)>>
             ELSE /\ bLog' = Append(bLog, Ev("index", TRUE, <<>>, <<>>))
                  /\ UNCHANGED <<bCur, bPc>>
          /\ UNCHANGED <<bRes, bKey, bAccounts>>
  /\ UNCHANGED <<bScn, bWd, notBoot>>

\* account.prepare_to_start(Rc::clone(&local_key))
BPrepareToStart ==
  /\ bPc = "prepare"
  /\ \E r \in {PrepareToStart(bCur[1], bKey, bScn)} :
     IF r.res.kind = "ok"
     THEN /\ bCur' = <<r.account>>
          /\ bPc' = "session"
          /\ bLog' = bLog \o r.log
          /\ UNCHANGED <<bRes, bStream, bKey, bLeft, bTried, bAccounts>>
     ELSE BootFails(r.res, r.log)
  /\ UNCHANGED <<bScn, bWd, notBoot>>

\* account.local.read_session_settings()?; accounts.insert(index, account)
BSessionSettings ==
  /\ bPc = "session"
  /\ \E r \in {ReadSessionSettings(bCur[1], bScn)} :
     IF r.res.kind = "ok"
     THEN /\ bAccounts' = {a \in bAccounts : a.index # bCur[1].index}
                            \cup {bCur[1]}
          /\ bCur' = <<>>
          /\ bPc' = "accounts"
          /\ bLog' = bLog \o r.log
                       \o <<Ev("insert", TRUE, <<>>, <<bCur[1].index>>)>>
          /\ UNCHANGED <<bRes, bStream, bKey, bLeft, bTried>>
     ELSE BootFails(r.res, r.log)
  /\ UNCHANGED <<bScn, bWd, notBoot>>

\* The loop over the accounts ends and start_modern returns Ok(()).
BReturn ==
  /\ bPc = "accounts"
  /\ bLeft = 0
  /\ BootReturns("modern", <<Ev("start_modern", TRUE, <<>>, <<>>)>>)
  /\ UNCHANGED <<bScn, bWd, notBoot>>

BootNext ==
  \/ BLocalStorage
  \/ BReadSetting
  \/ BSettingsEnd
  \/ BStartModern
  \/ BIndex
  \/ BPrepareToStart
  \/ BSessionSettings
  \/ BReturn

InitBoot == BootInit /\ IdleBut("boot")

SpecBoot == InitBoot /\ [][BootNext]_vars

\* The indexes of the accounts MainAccount::new made, in order.
NewIndexes ==
  LET new == SelectSeq(bLog, LAMBDA e : e.ev = "new") IN
  [i \in 1..Len(new) |-> new[i].acct[1]]

\* The number of indexes the loop of start_modern has read.
IndexReads == Len(SelectSeq(bLog, LAMBDA e : e.ev = "index" /\ e.ok))

\* The places among the first k indexes of the info block that hold an
\* index of [0, 3) for the first time.
FirstInRange(k) ==
  {p \in 1..k :
     /\ bScn.indexes[p] \in {<<0, i>> : i \in 0..2}
     /\ \A q \in 1..(p - 1) : bScn.indexes[q] # bScn.indexes[p]}

\* C11: the boot goes on behind the account count only if the count is 1,
\* 2 or 3 and fails otherwise; the accounts made have indexes among 0, 1, 2,
\* no index twice, are at most count many, and are exactly those of the
\* indexes read that are in range and were not seen before.
C11_AccountIndexes ==
  /\ \A i \in 1..Len(bLog) :
       bLog[i].ev = "count" =>
         /\ bLog[i].ok <=> bScn.count \in {<<0, 1>>, <<0, 2>>, <<0, 3>>}
         /\ ~bLog[i].ok => bPc = "failed" /\ i = Len(bLog)
  /\ \A i \in 1..Len(NewIndexes) : NewIndexes[i] \in {0, 1, 2}
  /\ \A i, j \in 1..Len(NewIndexes) : i # j => NewIndexes[i] # NewIndexes[j]
  /\ Len(NewIndexes) <= bScn.count[2]
  /\ IndexReads <= bScn.count[2]
  /\ Len(NewIndexes) = Cardinality(FirstInRange(IndexReads))
  /\ {NewIndexes[i] : i \in 1..Len(NewIndexes)}
       = {bScn.indexes[p][2] : p \in FirstInRange(IndexReads)}
  /\ {a.index : a \in bAccounts} \subseteq {0, 1, 2}
  /\ Cardinality(bAccounts) <= Len(NewIndexes)

\* A boot that read three indexes, one of them twice and one out of range,
\* and made one account.
C11_Witness ==
  /\ bPc = "done"
  /\ bScn.count = <<0, 3>>
  /\ bScn.indexes = <<<<0, 2>>, <<0, 2>>, <<0, 3>>>>
  /\ IndexReads = 3
  /\ NewIndexes = <<2>>

\* The name of the file an "open" step opened.
OpenedName(e) == e.path[Len(e.path)]

IsSettingsOpen(e) ==
  e.ev = "open" /\ e.acct = <<>> /\ OpenedName(e) = TxtSettings \o <<115>>

IsKeyOpen(e) ==
  e.ev = "open" /\ e.acct = <<>>
    /\ OpenedName(e) = ComputeKeyName(DataFile) \o <<115>>

IsMapOpen(e) ==
  e.ev = "open" /\ e.acct # <<>> /\ OpenedName(e) = TxtMap \o <<115>>

IsAccountSettingsOpen(e) ==
  e.ev = "open" /\ e.acct # <<>> /\ OpenedName(e) # TxtMap \o <<115>>

\* C12: the settings file is the first file opened; the key file is opened
\* only after the loop over the settings stream has ended; the info block is
\* decrypted only after the key file was opened; an account's map is opened
\* only after the info block was decrypted; and an account's settings file
\* is opened only after read_map of that account has returned Ok.
C12_BootOrder ==
  \A i \in 1..Len(bLog) :
    LET e == bLog[i]
        Before(P(_)) == \E j \in 1..(i - 1) : bLog[j].ok /\ P(bLog[j])
    IN
    /\ e.ev = "open" /\ ~IsSettingsOpen(e) => Before(IsSettingsOpen)
    /\ IsSettingsOpen(e) => \A j \in 1..(i - 1) : bLog[j].ev # "open"
    /\ IsKeyOpen(e) =>
         /\ Before(LAMBDA d : d.ev = "start_local_storage")
         /\ \A j \in 1..(i - 1) : ~IsKeyOpen(bLog[j])
    /\ e.ev = "decrypt_info" => Before(IsKeyOpen)
    /\ IsMapOpen(e) => Before(LAMBDA d : d.ev = "decrypt_info")
    /\ IsAccountSettingsOpen(e) =>
         Before(LAMBDA d : d.ev = "read_map" /\ d.acct = e.acct)
    /\ e.ev \in {"read_setting", "start_local_storage"} /\ e.acct = <<>> =>
         \A j \in 1..(i - 1) : ~IsKeyOpen(bLog[j])

\* A boot that opened the settings file, the key file and the map and the
\* settings of two accounts.
C12_Witness ==
  /\ bPc = "done"
  /\ Len(SelectSeq(bLog, IsSettingsOpen)) = 1
  /\ Len(SelectSeq(bLog, IsKeyOpen)) = 1
  /\ Len(SelectSeq(bLog, IsMapOpen)) = 2
  /\ Len(SelectSeq(bLog, IsAccountSettingsOpen)) = 2

\* The steps that only hand the failure of a step inside them on.
HandsOn(e) == e.ev \in {"read_map", "read_session_settings"}

RECURSIVE CountBytesFields(_, _, _)
\* How a body splits into Bytes fields: their number and the first of them,
\* with `whole` FALSE if bytes that are not a field are left behind them.
CountBytesFields(buf, pos, n) ==
  IF pos = Len(buf) THEN [whole |-> TRUE, fields |-> n]
  ELSE Bind(BytesReadFrom(buf, pos), LAMBDA f :
         IF f.ok THEN CountBytesFields(buf, f.pos, n + 1)
         ELSE [whole |-> FALSE, fields |-> n])

\* The body of the settings envelope of the scenario is n Bytes fields with
\* nothing behind them, the first of 32 bytes.
SettingsBodyIs(n) ==
  Bind(FileOpen(SettingsFile(bScn.settings)), LAMBDA o :
    /\ o.kind = "ok"
    /\ CountBytesFields(o.data, 0, 0) = [whole |-> TRUE, fields |-> n]
    /\ BytesReadFrom(o.data, 0).ok
    /\ Len(BytesReadFrom(o.data, 0).val) = LOCAL_ENCRYPT_SALT_SIZE)

\* start_local_storage has run and derived the legacy key.
LegacyKeyDerived ==
  \E i \in 1..Len(bLog) : bLog[i].ev = "create_legacy_local"

\* C15 as stated: start_local_storage derives the legacy key and decrypts
\* exactly when the body of the envelope is three Bytes fields with nothing
\* behind them and a salt of 32 bytes.
C15_Original ==
  bPc # "local_storage" => (LegacyKeyDerived <=> SettingsBodyIs(3))

\* C15: start_local_storage derives the legacy key and decrypts exactly when
\* the settings envelope opens and its body is two Bytes fields (salt,
\* encrypted settings) with nothing behind them and a salt of 32 bytes;
\* otherwise it fails with neither the key derived nor anything decrypted.
C15_TwoFields ==
  bPc # "local_storage" =>
    /\ LegacyKeyDerived <=> SettingsBodyIs(2)
    /\ ~LegacyKeyDerived =>
         /\ bPc = "failed"
         /\ \A i \in 1..Len(bLog) :
              bLog[i].ev \notin {"create_legacy_local", "decrypt_local"}

\* start_local_storage has accepted a body of two fields and decrypted it.
C15_Witness ==
  /\ bPc = "settings"
  /\ SettingsBodyIs(2)
  /\ LegacyKeyDerived
  /\ bLog[Len(bLog)] = Ev("decrypt_local", TRUE, <<>>, <<>>)

\* C17: the working directory is computed at most once, and every file the
\* boot opens lies in the directory tdata of the working directory.
C17_OneRoot ==
  /\ Len(SelectSeq(bLog, LAMBDA e : e.ev = "app_data_path")) <= 1
  /\ \A i \in 1..Len(bLog) :
       bLog[i].ev = "open" =>
         /\ bWd # <<>>
         /\ Len(bLog[i].path) > Len(bWd[1]) + 1
         /\ SubSeq(bLog[i].path, 1, Len(bWd[1]) + 1) = Append(bWd[1], TxtTdata)

(***************************************************************************)
(* One StorageAccount and a caller of its methods.  The boot calls start,  *)
(* which reads the map, and then read_session_settings, once each; here    *)
(* the three methods are called in any order, MaxCalls times in all, with  *)
(* the files of a profile on disk.  An Err goes back to the caller, a      *)
(* panic ends the process.                                                 *)
(***************************************************************************)
AccountInit ==
  /\ \E i \in {0, 1}, v \in AccountVariants :
       /\ bScn = [ScnDefault EXCEPT !.acct = [AllOk EXCEPT ![i] = v]]
       /\ bCur = <<MainAccountNew(DataFile, i, EnvDefault)>>
  /\ bPc = "account"
  /\ bLog = <<>>
  /\ bRes = NoOutcome
  /\ bWd = <<>>
  /\ bStream = NoStream
  /\ bKey = 0
  /\ bLeft = MaxCalls
  /\ bTried = {}
  /\ bAccounts = {}

\* What a call leaves behind it: the account as the method left it, the
\* steps that ran and what the method returned.
AccountCalled(name, account, res, log) ==
  /\ bCur' = <<account>>
  /\ bRes' = res
  /\ bLog' = bLog \o <<Ev(name, TRUE, <<>>, <<account.index>>)>> \o log
  /\ bPc' = IF res.kind = "panic" THEN "failed" ELSE bPc
  /\ bLeft' = bLeft - 1
  /\ UNCHANGED <<bScn, bWd, bStream, bKey, bTried, bAccounts, notBoot>>

\* account.start(local_key)
AStart ==
  /\ bPc = "account"
  /\ bLeft > 0
  /\ \E local_key \in {ProfileKey, ProfileKey + 1} :
       \E r \in {StorageAccountStart(bCur[1], local_key, bScn)} :
         AccountCalled("call_start", r.account, r.res, r.log)

\* account.read_map()
AReadMap ==
  /\ bPc = "account"
  /\ bLeft > 0
  /\ \E r \in {ReadMap(bCur[1], bScn)} :
       AccountCalled("call_read_map", r.account, r.res, r.log)

\* account.read_session_settings()
AReadSessionSettings ==
  /\ bPc = "account"
  /\ bLeft > 0
  /\ \E r \in {ReadSessionSettings(bCur[1], bScn)} :
       AccountCalled("call_read_session_settings", bCur[1], r.res, r.log)

AccountNext == AStart \/ AReadMap \/ AReadSessionSettings

InitAccount == AccountInit /\ IdleBut("boot")

SpecAccount == InitAccount /\ [][AccountNext]_vars

\* The step the method of a call ends with.
DoneStep(call) ==
  CASE call = "call_start" -> "start"
    [] call = "call_read_map" -> "read_map"
    [] call = "call_read_session_settings" -> "read_session_settings"

\* The call at place j of the log takes a transition the account has taken
\* (the method has run to its end before) or takes one out of order (the
\* map read before start, the settings read before the map was read).
Reentered(j) ==
  LET Earlier(ev) == \E i \in 1..(j - 1) : bLog[i].ev = ev /\ bLog[i].ok IN
  \/ Earlier(DoneStep(bLog[j].ev))
  \/ bLog[j].ev = "call_read_map" /\ ~Earlier("start")
  \/ bLog[j].ev = "call_read_session_settings" /\ ~Earlier("read_map")

\* C13: a call that takes a transition again or out of order is a fatal
\* error and is not performed: the process ends and the call opens no file.
C13_OneShot ==
  \A j \in 1..Len(bLog) :
    bLog[j].ev \in {"call_start", "call_read_map", "call_read_session_settings"}
      /\ Reentered(j)
    => /\ bPc = "failed"
       /\ \A k \in (j + 1)..Len(bLog) : bLog[k].ev # "open"

(***************************************************************************)
(* The key of the per-account settings file.  read_map stores the key of   *)
(* a UserSettings record in keys.settings, which StorageAccount::new left  *)
(* at StorageKeys::default(); read_session_settings opens the file that    *)
(* keys.settings names.                                                    *)
(***************************************************************************)
\* The keys the UserSettings records of the map of account i supply, as the
\* map was written.
MapSettingsKeys(scn, i) ==
  IF scn.acct[i] \in {"ok", "badsettings", "nosettings", "usermap",
                      "maptrailing"}
  THEN {AccountSettingsKey(i)}
  ELSE {}

\* C21: every per-account settings file the boot opens is named by a key
\* that a UserSettings record of that account's own map supplied, and never
\* by the zero key of StorageKeys::default.
C21_MapSuppliedKey ==
  \A j \in 1..Len(bLog) :
    IsAccountSettingsOpen(bLog[j]) =>
      /\ OpenedName(bLog[j]) # ToFilePart(FileKeyDefault) \o <<115>>
      /\ \E key \in MapSettingsKeys(bScn, bLog[j].acct[1]) :
           OpenedName(bLog[j]) = ToFilePart(key) \o <<115>>

(***************************************************************************)
(* The value stream as a state machine: a buffer, a cursor and the typed   *)
(* reads and skips of DescriptorStream applied to it one after another.    *)
(* An Err is propagated by every caller with `?`, so a stream that         *)
(* returned one is not read again.                                         *)
(***************************************************************************)
Chunks ==
  { <<0, 0, 0, 0>>, <<0, 0, 0, 1>>, <<255, 255, 255, 255>>,
    <<222, 173, 190, 239, 202, 254, 186, 190, 1, 2>>, <<128>> }

RECURSIVE Concats(_)
Concats(n) ==
  IF n = 0 THEN {<<>>}
  ELSE LET S == Concats(n - 1) IN S \cup {s \o c : s \in S, c \in Chunks}

StreamTypes ==
  { TI32, TI64, TU16, TU32, TU64, TBytes,
    TTuple(<<TBytes, TU16, TU16>>),
    TTuple(<<TI32, TI32, TI64, TI64>>),
    TVec(TTuple(<<TU64, TU16>>)), TVec(TBytes) }

StreamInit ==
  /\ sBuf \in Concats(MaxChunks)
  /\ sPos = 0
  /\ sLive = TRUE
  /\ sLast = NoOp

\* DescriptorStream::read::<T>
SRead(T) ==
  /\ sLive
  /\ LET r == ReadFrom(T, sBuf, sPos) IN
     /\ sPos' = IF r.ok THEN r.pos ELSE sPos
     /\ sLive' = r.ok
     /\ sLast' = [op |-> "read", T |-> T, before |-> sPos, ok |-> r.ok,
                  val |-> IF r.ok THEN r.val ELSE <<>>]
  /\ UNCHANGED <<sBuf, notStr>>

\* DescriptorStream::skip::<T>
SSkip(T) ==
  /\ sLive
  /\ LET r == SkipFrom(T, sBuf, sPos) IN
     /\ sPos' = IF r.ok THEN r.pos ELSE sPos
     /\ sLive' = r.ok
     /\ sLast' = [op |-> "skip", T |-> T, before |-> sPos, ok |-> r.ok]
  /\ UNCHANGED <<sBuf, notStr>>

\* DescriptorStream::at_end (&self)
SAtEnd ==
  /\ sLive
  /\ sLast' = [op |-> "at_end", before |-> sPos, buf |-> sBuf,
               ret |-> AtEnd(sBuf, sPos)]
  /\ UNCHANGED <<sBuf, sPos, sLive, notStr>>

\* DescriptorStream::should_be_done (&self)
SShouldBeDone ==
  /\ sLive
  /\ LET r == ShouldBeDone(sBuf, sPos) IN
     /\ sLast' = [op |-> "should_be_done", before |-> sPos, buf |-> sBuf,
                  ret |-> r]
     /\ sLive' = (r = "ok")
  /\ UNCHANGED <<sBuf, sPos, notStr>>

StreamNext ==
  \/ \E T \in StreamTypes : SRead(T)
  \/ \E T \in StreamTypes : SSkip(T)
  \/ SAtEnd
  \/ SShouldBeDone

InitStream == StreamInit /\ IdleBut("stream")

SpecStream == InitStream /\ [][StreamNext]_vars

(***************************************************************************)
(* The encoded size of a value of a stream type.                           *)
(***************************************************************************)
RECURSIVE EncodedSize(_, _)
RECURSIVE SumSizes(_, _)
SumSizes(Ts, vs) ==
  IF vs = <<>> THEN 0
  ELSE EncodedSize(Head(Ts), Head(vs)) + SumSizes(Tail(Ts), Tail(vs))

EncodedSize(T, v) ==
  CASE T.k = "u16" -> 2
    [] T.k \in {"i32", "u32"} -> 4
    [] T.k \in {"i64", "u64"} -> 8
    [] T.k = "Bytes" -> 4 + Len(v)
    [] T.k = "tuple" -> SumSizes(T.f, v)
    [] T.k = "vec" -> 4 + SumSizes([i \in 1..Len(v) |-> T.item], v)

(***************************************************************************)
(* C5.  Reading a Bytes value decodes a big-endian u32 length prefix: a    *)
(* prefix of 0 or of 0xFFFFFFFF gives the empty byte string and consumes   *)
(* the 4 prefix bytes only; any other prefix len gives exactly the len     *)
(* bytes that follow it, and the read fails when fewer than len bytes (or  *)
(* fewer than the 4 prefix bytes) remain.                                  *)
(***************************************************************************)
C5_BytesRead ==
  (sLast.op = "read" /\ sLast.T.k = "Bytes") =>
    LET p == sLast.before
        rem == Len(sBuf) - p
    IN
    IF rem < 4 THEN ~sLast.ok
    ELSE
      LET b == [i \in 1..4 |-> sBuf[p + i]]
          len == ((b[1] * 256 + b[2]) * 256 + b[3]) * 256 + b[4]
      IN
      IF (\A i \in 1..4 : b[i] = 0) \/ (\A i \in 1..4 : b[i] = 255)
      THEN sLast.ok /\ sLast.val = <<>> /\ sPos = p + 4
      ELSE IF b[1] >= 128 \/ len > rem - 4
      THEN ~sLast.ok
      ELSE /\ sLast.ok
           /\ Len(sLast.val) = len
           /\ sLast.val = SubSeq(sBuf, p + 5, p + 4 + len)
           /\ sPos = p + 4 + len

\* A Bytes read whose prefix is 0xFFFFFFFF, after an earlier read.
C5_Witness ==
  /\ sLast.op = "read" /\ sLast.T.k = "Bytes" /\ sLast.ok
  /\ sLast.before > 0
  /\ \A i \in 1..4 : sBuf[sLast.before + i] = 255
  /\ Len(sBuf) > sPos

(***************************************************************************)
(* C6.  A successful read<T> advances the position by exactly the encoded  *)
(* size of the value read, and skip<T> succeeds on exactly the inputs on   *)
(* which read<T> succeeds and leaves the stream at the same position.      *)
(***************************************************************************)
C6_ReadSkipAdvance ==
  /\ (sLast.op = "read" /\ sLast.ok) =>
        sPos = sLast.before + EncodedSize(sLast.T, sLast.val)
  /\ (sLast.op = "skip") =>
        LET r == ReadFrom(sLast.T, sBuf, sLast.before) IN
        /\ sLast.ok = r.ok
        /\ sLast.ok => sPos = r.pos

\* A skip of a Vec<(u64, u16)> holding one item.
C6_Witness ==
  /\ sLast.op = "skip" /\ sLast.T = TVec(TTuple(<<TU64, TU16>>))
  /\ sLast.ok
  /\ sPos = sLast.before + 14

(***************************************************************************)
(* C7.  at_end is true exactly when the position equals the buffer length, *)
(* should_be_done succeeds exactly then and fails with the extraneous-data *)
(* error otherwise, and neither changes the position or the buffer.        *)
(***************************************************************************)
C7_AtEndShouldBeDone ==
  /\ (sLast.op = "at_end") =>
        /\ sLast.ret = (sLast.before = Len(sLast.buf))
        /\ sPos = sLast.before /\ sBuf = sLast.buf
  /\ (sLast.op = "should_be_done") =>
        /\ sLast.ret = (IF sLast.before = Len(sLast.buf)
                        THEN "ok" ELSE "extraneous data")
        /\ sPos = sLast.before /\ sBuf = sLast.buf

\* should_be_done failing on a stream with bytes left after a read.
C7_Witness ==
  /\ sLast.op = "should_be_done"
  /\ sLast.ret = "extraneous data"
  /\ sLast.before > 0

=============================================================================
